---------------------------- MODULE Spec2Model ----------------------------
(***************************************************************************)
(* A model of the retrieval subsystem of backend/airag: the two vector     *)
(* stores (Detail Index, Summary Index), the in-memory BM25 keyword index  *)
(* of HybridRetriever, the knowledge endpoints that write them, the        *)
(* hybrid retriever, the reranker and the citation filter of the chat      *)
(* endpoint.                                                               *)
(*                                                                         *)
(* Texts are abstract: a small chunk is identified by its chunk_id, a      *)
(* summary by (knowledge_id, chunk_index).  Scores are integers in         *)
(* thousandths (0.35 is 350).  rank_bm25 is taken to be installed          *)
(* (HAS_BM25 = True).                                                      *)
(***************************************************************************)
EXTENDS Integers, Sequences, FiniteSets, TLC

VARIABLES
    detail,         \* Detail Index (chroma collection knowledge_detail_v4): set of rows
    summary,        \* Summary Index (chroma collection knowledge_summary_v4): set of rows
    bm25_docs,      \* HybridRetriever.bm25_docs: sequence of small-chunk texts
    bm25_metadata,  \* HybridRetriever.bm25_metadata: sequence of metadata rows
    bm25_index,     \* HybridRetriever.bm25_index: NoIndex, or the corpus it was built over
    resp,           \* the response of the last endpoint call, and what it logged
    call,           \* the arguments of the last retrieve call
    result,         \* what that call returned: a sequence of (document, score)
    rerank_in,      \* the arguments of the last rerank call, and the reranker's fields
    rerank_out,     \* what that call returned: a sequence of RerankResult
    cite_in,        \* the arguments of the last _filter_used_sources call
    cite_out,       \* what that call returned: the answer and the used sources
    invoked,        \* the last call of route, generate_chunk_summaries or the chunker
    returned,       \* what that call returned
    chat,           \* the chat request being served: where it stands, what it holds
    inflight        \* the knowledge requests received and not yet answered

vars == <<detail, summary, bm25_docs, bm25_metadata, bm25_index, resp,
          call, result, rerank_in, rerank_out, cite_in, cite_out,
          invoked, returned, chat, inflight>>

retrVars == <<call, result>>

rerankVars == <<rerank_in, rerank_out>>

citeVars == <<cite_in, cite_out>>

callVars == <<invoked, returned>>

indexVars == <<detail, summary, bm25_docs, bm25_metadata, bm25_index>>

None == "None"

\* bm25_index = NoIndex: no index was built (a built index has a document)
NoIndex == <<>>

\* the knowledge_id of no document
NoKid == <<"none">>

\* no call was made yet
NoCall == [op |-> "none"]

-----------------------------------------------------------------------------
(* Bounds of the model *)

\* the largest number of small chunks one document is split into
MaxChunks == 2

\* the largest number of chunk summaries of one document
MaxSummaries == 2

-----------------------------------------------------------------------------
(* Data *)

PERSONAL == "personal"

COURSE == "course"

\* knowledge_id of a course resource: f"course_{course_id}_{file_id}"
CourseKid(course_id, file_id) == <<"course", course_id, file_id>>

\* knowledge ids uuid4() can return
UuidKids == {<<"uuid", 1>>}

CourseIds == {"c1"}

FileIds == {"f1"}

Kids == UuidKids \cup {CourseKid(c, f) : c \in CourseIds, f \in FileIds}

\* The chunking of a document: the number of small chunks of each of its
\* large chunks, in order.  Every large chunk yields at least one small
\* chunk and every non-blank text at least one large chunk.
RECURSIVE SumSeq(_)
SumSeq(s) == IF s = <<>> THEN 0 ELSE Head(s) + SumSeq(Tail(s))

Shapes ==
    {s \in UNION {[1..n -> 1..MaxChunks] : n \in 1..MaxChunks} : SumSeq(s) <= MaxChunks}

\* The ChunkWithContext list of create_hierarchical_chunks for a text of
\* chunking `shape`, as the Detail rows _add_to_indexes builds from it.
\* The text of a large chunk is named by (knowledge_id, large index).
DetailDocs(metadata, shape) ==
    {[chunk_id |-> <<metadata.knowledge_id, li, si>>,
      knowledge_id |-> metadata.knowledge_id,
      large_chunk_index |-> li,
      small_chunk_index |-> si,
      large_chunk |-> <<metadata.knowledge_id, li>>,
      name |-> metadata.name,
      source_type |-> metadata.source_type,
      owner_id |-> metadata.owner_id]
        : <<li, si>> \in {p \in (0..(Len(shape) - 1)) \X (0..(MaxChunks - 1)) :
                              p[2] < shape[p[1] + 1]}}

\* The Summary rows _add_to_indexes builds from n chunk summaries.
SummaryDocs(metadata, n) ==
    {[id |-> <<metadata.knowledge_id, "summary", ci>>,
      knowledge_id |-> metadata.knowledge_id,
      chunk_index |-> ci,
      name |-> metadata.name,
      source_type |-> metadata.source_type,
      owner_id |-> metadata.owner_id] : ci \in 0..(n - 1)}

\* chroma's add_documents(documents, ids) upserts: a row with a stored id
\* replaces it.
UpsertDetail(store, docs) ==
    {r \in store : r.chunk_id \notin {d.chunk_id : d \in docs}} \cup docs

UpsertSummary(store, docs) ==
    {r \in store : r.id \notin {d.id : d \in docs}} \cup docs

\* chroma's get(where={"knowledge_id": k})
GetWhere(store, k) == {r \in store : r.knowledge_id = k}

-----------------------------------------------------------------------------
(* The keyword index *)

KidRank(k) == IF k[1] = "course" THEN 0 ELSE k[2]

RowLess(a, b) ==
    \/ KidRank(a.knowledge_id) < KidRank(b.knowledge_id)
    \/ /\ a.knowledge_id = b.knowledge_id
       /\ \/ a.large_chunk_index < b.large_chunk_index
          \/ /\ a.large_chunk_index = b.large_chunk_index
             /\ a.small_chunk_index < b.small_chunk_index

\* detail_chroma.get(include=["documents", "metadatas"]): all rows, in the
\* store's order (the model fixes one order).
RECURSIVE GetAll(_)
GetAll(store) ==
    IF store = {} THEN <<>>
    ELSE LET first == CHOOSE r \in store : \A o \in store \ {r} : RowLess(r, o)
         IN  <<first>> \o GetAll(store \ {first})

\* Dependencies._build_bm25_index over the Detail Index `store`, with
\* HybridRetriever.build_bm25_index inlined.  outcome: "ok", "get_fail"
\* (the store's get raises) or "index_fail" (tokenizing or BM25Okapi raises
\* after bm25_docs and bm25_metadata were assigned); both raises are caught
\* at dependencies.py:155.
BuildOutcomes == {"ok", "get_fail"}

PartialBuildOutcomes == BuildOutcomes \cup {"index_fail"}

\* the page_content list of the rows of `store`: a small chunk's text is
\* named by its chunk_id
PageContents(store) == [i \in 1..Cardinality(store) |-> GetAll(store)[i].chunk_id]

BuildBm25Index(store, outcome) ==
    IF outcome = "get_fail" \/ store = {}
    THEN UNCHANGED <<bm25_docs, bm25_metadata, bm25_index>>
    ELSE /\ bm25_docs' = PageContents(store)
         /\ bm25_metadata' = GetAll(store)
         /\ bm25_index' = IF outcome = "index_fail" THEN bm25_index
                          ELSE PageContents(store)

\* What that rebuild logs: "built" (dependencies.py:151), "skipped" (the
\* Detail Index holds no document, dependencies.py:153) or "failed"
\* (dependencies.py:156).
RebuildLog(store, outcome) ==
    IF outcome = "get_fail" THEN "failed"
    ELSE IF store # {} /\ outcome = "index_fail" THEN "failed"
    ELSE IF store = {} THEN "skipped"
    ELSE "built"

-----------------------------------------------------------------------------
(* The knowledge endpoints *)

Metadata(k, name, source_type, owner_id) ==
    [knowledge_id |-> k, name |-> name, source_type |-> source_type,
     owner_id |-> owner_id]

\* What an endpoint answers.  note tells the return statement taken,
\* rebuild what the BM25 rebuild of the call logged ("none": no rebuild),
\* fault which store call raised during the call ("none": none did), text
\* the text an ingest extracted ("none": not an ingest).
Response(op, k, success, note, rebuild, fault, text) ==
    [op |-> op, knowledge_id |-> k, success |-> success, note |-> note,
     rebuild |-> rebuild, fault |-> fault, text |-> text]

\* Which store call raises during an endpoint call: "detail" (the Detail
\* store's add_documents or delete), "summary" (the Summary store's
\* add_documents, get or delete), or "none".
Faults == {"none", "detail", "summary"}

\* The text parse_file_content extracts: empty, whitespace only, or a
\* document.
Texts == {"", " ", "doc"}

\* not text_content.strip()
IsBlank(text) == text \in {"", " "}

\* _add_to_indexes that logs a failed Summary write and goes on
AddToIndexesLenient(op, metadata, text, shape, nsum, fault, outcome) ==
    IF shape = <<>> \/ fault = "detail"
    THEN /\ UNCHANGED indexVars
         /\ resp' = Response(op, metadata.knowledge_id, FALSE, "failed", "none", fault, text)
    ELSE /\ detail' = UpsertDetail(detail, DetailDocs(metadata, shape))
         /\ summary' = IF fault = "summary" THEN summary
                       ELSE UpsertSummary(summary, SummaryDocs(metadata, nsum))
         /\ BuildBm25Index(UpsertDetail(detail, DetailDocs(metadata, shape)), outcome)
         /\ resp' = Response(op, metadata.knowledge_id, TRUE, "added",
                              RebuildLog(UpsertDetail(detail, DetailDocs(metadata, shape)),
                                         outcome), fault, text)

\* _add_to_indexes, with the endpoint's try/except around it: a raise
\* becomes success = FALSE.  shape = <<>>: the chunker returned no chunk.
AddToIndexes(op, metadata, text, shape, nsum, fault, outcome) ==
    IF shape = <<>>
    THEN /\ UNCHANGED indexVars
         /\ resp' = Response(op, metadata.knowledge_id, FALSE, "no_chunks", "none", "none", text)
    ELSE IF fault = "detail"
    THEN /\ UNCHANGED indexVars
         /\ resp' = Response(op, metadata.knowledge_id, FALSE, "detail_write_failed",
                              "none", fault, text)
    ELSE IF fault = "summary"
    THEN /\ detail' = UpsertDetail(detail, DetailDocs(metadata, shape))
         /\ UNCHANGED <<summary, bm25_docs, bm25_metadata, bm25_index>>
         /\ resp' = Response(op, metadata.knowledge_id, FALSE, "summary_write_failed",
                              "none", fault, text)
    ELSE /\ detail' = UpsertDetail(detail, DetailDocs(metadata, shape))
         /\ summary' = UpsertSummary(summary, SummaryDocs(metadata, nsum))
         /\ BuildBm25Index(UpsertDetail(detail, DetailDocs(metadata, shape)), outcome)
         /\ resp' = Response(op, metadata.knowledge_id, TRUE, "added",
                              RebuildLog(UpsertDetail(detail, DetailDocs(metadata, shape)),
                                         outcome), fault, text)

\* uuid.uuid4(): an id no stored row carries
FreshKids ==
    {k \in UuidKids :
        /\ GetWhere(detail, k) = {}
        /\ GetWhere(summary, k) = {}
        /\ \A i \in 1..Len(bm25_metadata) : bm25_metadata[i].knowledge_id # k}

\* add_knowledge without the test of the extracted text: the chunker makes
\* one chunk of a blank text
add_knowledge_unchecked(x_user_id, name, source_type, text, shape, nsum, fault, outcome) ==
    \E k \in FreshKids :
        AddToIndexes("add", Metadata(k, name, source_type, x_user_id), text,
                     IF IsBlank(text) THEN <<1>> ELSE shape, 1, fault, outcome)

\* POST /knowledge/add with a file that parses to `text`, which chunks
\* into `shape`
add_knowledge(x_user_id, name, source_type, text, shape, nsum, fault, outcome) ==
    IF IsBlank(text)
    THEN /\ UNCHANGED indexVars
         /\ resp' = Response("add", NoKid, FALSE, "blank_text", "none", "none", text)
    ELSE \E k \in FreshKids :
            AddToIndexes("add", Metadata(k, name, source_type, x_user_id), text,
                         shape, nsum, fault, outcome)

\* add-from-course without the test whether the resource is already held
add_course_resource_reingesting(course_id, file_id, file_name, text, shape, nsum, fault, outcome) ==
    LET k == CourseKid(course_id, file_id) IN
    IF IsBlank(text)
    THEN /\ UNCHANGED indexVars
         /\ resp' = Response("add_course", NoKid, FALSE, "blank_text", "none", "none", text)
    ELSE AddToIndexes("add_course", Metadata(k, file_name, COURSE, "system"), text,
                      shape, nsum, fault, outcome)

\* POST /knowledge/add-from-course with a file that parses to `text`
add_course_resource_to_knowledge(course_id, file_id, file_name, text, shape, nsum, fault, outcome) ==
    LET k == CourseKid(course_id, file_id) IN
    IF IsBlank(text)
    THEN /\ UNCHANGED indexVars
         /\ resp' = Response("add_course", NoKid, FALSE, "blank_text", "none", "none", text)
    ELSE IF GetWhere(detail, k) # {}
    THEN /\ UNCHANGED indexVars
         /\ resp' = Response("add_course", k, TRUE, "exists", "none", "none", text)
    ELSE AddToIndexes("add_course", Metadata(k, file_name, COURSE, "system"), text,
                      shape, nsum, fault, outcome)

\* DELETE /knowledge/{knowledge_id}.  A raise of the Detail store's delete
\* reaches the endpoint's except; a raise of the Summary store's get or
\* delete is logged and dropped (knowledge.py:384).
delete_knowledge(k, x_user_id, fault, outcome) ==
    LET existing == GetWhere(detail, k) IN
    IF existing = {}
    THEN /\ UNCHANGED indexVars
         /\ resp' = Response("delete", k, TRUE, "not_found", "none", "none", "none")
    ELSE LET md == CHOOSE r \in existing : TRUE IN
         IF \/ md.source_type = COURSE /\ x_user_id # "system"
            \/ md.source_type = PERSONAL /\ md.owner_id # x_user_id
         THEN /\ UNCHANGED indexVars
              /\ resp' = Response("delete", k, FALSE, "forbidden", "none", "none", "none")
         ELSE IF fault = "detail"
         THEN /\ UNCHANGED indexVars
              /\ resp' = Response("delete", k, FALSE, "detail_delete_failed", "none", fault, "none")
         ELSE /\ detail' = detail \ existing
              /\ summary' = IF fault = "summary" THEN summary
                            ELSE summary \ GetWhere(summary, k)
              /\ BuildBm25Index(detail \ existing, outcome)
              /\ resp' = Response("delete", k, TRUE, "deleted",
                                   RebuildLog(detail \ existing, outcome), fault, "none")

-----------------------------------------------------------------------------
(* Scores.  A score is an integer number of thousandths. *)

\* 1 / (1 + score) of a store distance
Sim(distance) == 1000 \div (1 + distance)

Max(S) == CHOOSE x \in S : \A y \in S : y <= x

\* normalized_score * weight
Weighted(score, weight) == (score * weight) \div 1000

\* A query is known by what the external capabilities answer for it: vec
\* gives the embedding distance of the query to each document, kw the BM25
\* term score of each document.  Within a document a later small chunk lies
\* one further away and matches one term more.  Of the summary chunks of a
\* document the query is nearest to the first (vec 0) or to the last (vec 1,
\* one further away), and each chunk next to it lies one further.
Queries == [vec : [Kids -> {0, 1}], kw : [Kids -> {0, 1}]]

\* the distance similarity_search_with_score reports for a Detail row
DetailDistance(q, row) ==
    q.vec[row.knowledge_id] + row.large_chunk_index + row.small_chunk_index

\* the distance similarity_search_with_score reports for a Summary row
SummaryDistance(q, row) ==
    LET last == Max({r.chunk_index : r \in {x \in summary : x.knowledge_id = row.knowledge_id}}
                        \cup {row.chunk_index})
    IN  IF q.vec[row.knowledge_id] = 0 THEN row.chunk_index
        ELSE 1 + last - row.chunk_index

\* bm25_index.get_scores(query_tokens): one raw score per corpus position;
\* position i of the corpus is chunk bm25_index[i]
Bm25Scores(q) ==
    [i \in 1..Len(bm25_index) |->
        q.kw[bm25_index[i][1]] * (1 + bm25_index[i][2] + bm25_index[i][3])]

\* list.sort(key = score, reverse = True): stable, descending
RECURSIVE InsertByScore(_, _)
InsertByScore(x, s) ==
    IF s = <<>> THEN <<x>>
    ELSE IF Head(s).score >= x.score THEN <<Head(s)>> \o InsertByScore(x, Tail(s))
    ELSE <<x>> \o s

\* a sort that leaves the list as it is
Unsorted(s) == s

RECURSIVE SortByScore(_)
SortByScore(s) ==
    IF s = <<>> THEN <<>>
    ELSE InsertByScore(s[Len(s)], SortByScore(SubSeq(s, 1, Len(s) - 1)))

Take(s, n) == SubSeq(s, 1, IF n < Len(s) THEN n ELSE Len(s))

-----------------------------------------------------------------------------
(* HybridRetriever *)

DETAIL == "detail"

SUMMARY == "summary"

\* a store search that drops the knowledge_id filter
Unfiltered(store, knowledge_ids) == store

\* filter_condition = {"knowledge_id": {"$in": knowledge_ids}} if
\* knowledge_ids else None: the rows of a store that pass it
Filtered(store, knowledge_ids) ==
    IF knowledge_ids # {} THEN {r \in store : r.knowledge_id \in knowledge_ids}
    ELSE store

SummaryLess(a, b) ==
    \/ KidRank(a.knowledge_id) < KidRank(b.knowledge_id)
    \/ a.knowledge_id = b.knowledge_id /\ a.chunk_index < b.chunk_index

\* detail_chroma.similarity_search_with_score(query, k, filter): the k
\* nearest rows that pass the filter, nearest first, each with its distance
RECURSIVE NearestDetail(_, _, _)
NearestDetail(rows, q, k) ==
    IF rows = {} \/ k <= 0 THEN <<>>
    ELSE LET first == CHOOSE r \in rows : \A o \in rows \ {r} :
                          \/ DetailDistance(q, r) < DetailDistance(q, o)
                          \/ DetailDistance(q, r) = DetailDistance(q, o) /\ RowLess(r, o)
         IN  <<[doc |-> first, distance |-> DetailDistance(q, first)]>>
                 \o NearestDetail(rows \ {first}, q, k - 1)

\* summary_chroma.similarity_search_with_score(query, k, filter)
RECURSIVE NearestSummary(_, _, _)
NearestSummary(rows, q, k) ==
    IF rows = {} \/ k <= 0 THEN <<>>
    ELSE LET first == CHOOSE r \in rows : \A o \in rows \ {r} :
                          \/ SummaryDistance(q, r) < SummaryDistance(q, o)
                          \/ SummaryDistance(q, r) = SummaryDistance(q, o) /\ SummaryLess(r, o)
         IN  <<[doc |-> first, distance |-> SummaryDistance(q, first)]>>
                 \o NearestSummary(rows \ {first}, q, k - 1)

\* _vector_search: the entries it puts into `results`, in insertion order.
\* storeOk = FALSE: the store call raises, which is logged and dropped.
VectorSearch(q, knowledge_ids, top_k, weight, storeOk) ==
    IF ~storeOk THEN <<>>
    ELSE LET found == NearestDetail(Filtered(detail, knowledge_ids), q, top_k * 2)
         IN  [i \in 1..Len(found) |->
                 [doc_id |-> found[i].doc.chunk_id,
                  doc |-> found[i].doc,
                  vector_score |-> Weighted(Sim(found[i].distance), weight),
                  bm25_score |-> 0]]

\* a loop body of _bm25_search that puts its own entry in the place of the
\* one the vector search made for the chunk
Bm25VisitReplacing(q, knowledge_ids, weight, results, idx, max_score) ==
    LET score == Bm25Scores(q)[idx]
        metadata == bm25_metadata[idx]
        normalized_score == Weighted((score * 1000) \div max_score, weight)
        at == {j \in 1..Len(results) : results[j].doc_id = metadata.chunk_id}
        entry == [doc_id |-> metadata.chunk_id, doc |-> metadata,
                  vector_score |-> 0, bm25_score |-> normalized_score]
    IN  IF score <= 0 THEN results
        ELSE IF knowledge_ids # {} /\ metadata.knowledge_id \notin knowledge_ids
        THEN results
        ELSE IF at # {}
        THEN [j \in 1..Len(results) |-> IF j \in at THEN entry ELSE results[j]]
        ELSE Append(results, entry)

\* _bm25_search: `results` after it ran.  The loop body for corpus position
\* idx, then the loop from idx on.
Bm25Visit(q, knowledge_ids, weight, results, idx, max_score) ==
    LET score == Bm25Scores(q)[idx]
        metadata == bm25_metadata[idx]
        normalized_score == Weighted((score * 1000) \div max_score, weight)
        at == {j \in 1..Len(results) : results[j].doc_id = metadata.chunk_id}
    IN  IF score <= 0 THEN results
        ELSE IF knowledge_ids # {} /\ metadata.knowledge_id \notin knowledge_ids
        THEN results
        ELSE IF at # {}
        THEN [j \in 1..Len(results) |->
                 IF j \in at THEN [results[j] EXCEPT !.bm25_score = normalized_score]
                 ELSE results[j]]
        ELSE Append(results, [doc_id |-> metadata.chunk_id,
                              doc |-> metadata,
                              vector_score |-> 0,
                              bm25_score |-> normalized_score])

RECURSIVE Bm25Loop(_, _, _, _, _, _)
Bm25Loop(q, knowledge_ids, weight, results, idx, max_score) ==
    IF idx > Len(bm25_index) THEN results
    ELSE Bm25Loop(q, knowledge_ids, weight,
                  Bm25Visit(q, knowledge_ids, weight, results, idx, max_score),
                  idx + 1, max_score)

Bm25Search(q, knowledge_ids, weight, results) ==
    IF bm25_index = NoIndex \/ weight <= 0 THEN results
    ELSE LET scores == Bm25Scores(q)
             top == Max({scores[i] : i \in 1..Len(scores)})
         IN  Bm25Loop(q, knowledge_ids, weight, results, 1, IF top > 0 THEN top ELSE 1)

\* dedup_key = (name, large_chunk[:100])
DedupKey(doc) == <<doc.name, doc.large_chunk>>

\* a dedup loop that never stops at top_k
RECURSIVE DedupNoStop(_, _, _, _)
DedupNoStop(scored, seen, deduped, top_k) ==
    IF scored = <<>> THEN deduped
    ELSE IF DedupKey(Head(scored).doc) \in seen
    THEN DedupNoStop(Tail(scored), seen, deduped, top_k)
    ELSE DedupNoStop(Tail(scored), seen \cup {DedupKey(Head(scored).doc)},
                     Append(deduped, Head(scored)), top_k)

\* the dedup loop of _retrieve_from_detail, which stops once top_k are kept
RECURSIVE Dedup(_, _, _, _)
Dedup(scored, seen, deduped, top_k) ==
    IF scored = <<>> THEN deduped
    ELSE IF DedupKey(Head(scored).doc) \in seen
    THEN Dedup(Tail(scored), seen, deduped, top_k)
    ELSE IF Len(deduped) + 1 >= top_k THEN Append(deduped, Head(scored))
    ELSE Dedup(Tail(scored), seen \cup {DedupKey(Head(scored).doc)},
               Append(deduped, Head(scored)), top_k)

\* scored_results of _retrieve_from_detail before it is sorted: the merged
\* entries of `results`, each with its total score and its two components
ScoredResults(q, knowledge_ids, top_k, vector_weight, bm25_weight, storeOk) ==
    LET results == Bm25Search(q, knowledge_ids, bm25_weight,
                              VectorSearch(q, knowledge_ids, top_k, vector_weight, storeOk))
    IN  [i \in 1..Len(results) |->
            [doc |-> results[i].doc,
             score |-> results[i].vector_score + results[i].bm25_score,
             vector_score |-> results[i].vector_score,
             bm25_score |-> results[i].bm25_score]]

RetrieveFromDetail(q, knowledge_ids, top_k, vector_weight, bm25_weight, storeOk) ==
    LET scored == SortByScore(ScoredResults(q, knowledge_ids, top_k, vector_weight,
                                            bm25_weight, storeOk))
        deduped_results == Dedup(scored, {}, <<>>, top_k)
    IN  [i \in 1..Len(deduped_results) |->
            [doc |-> deduped_results[i].doc, score |-> deduped_results[i].score]]

\* a grouping loop that gives a document the score of its latest hit
RECURSIVE GroupHitsLatestScore(_, _, _, _)
GroupHitsLatestScore(found, i, vector_weight, groups) ==
    IF i > Len(found) THEN groups
    ELSE LET hit == found[i].doc
             normalized_score == Weighted(Sim(found[i].distance), vector_weight)
             at == {j \in 1..Len(groups) : groups[j].knowledge_id = hit.knowledge_id}
             opened == IF at # {} THEN groups
                       ELSE Append(groups, [knowledge_id |-> hit.knowledge_id,
                                            name |-> hit.name,
                                            chunks |-> <<>>,
                                            score |-> normalized_score])
             j == CHOOSE x \in 1..Len(opened) : opened[x].knowledge_id = hit.knowledge_id
             g == opened[j]
         IN  GroupHitsLatestScore(found, i + 1, vector_weight,
                 [opened EXCEPT ![j] =
                     [g EXCEPT !.score = normalized_score,
                               !.chunks = IF \E c \in 1..Len(g.chunks) :
                                                   g.chunks[c] = hit.chunk_index
                                          THEN g.chunks
                                          ELSE Append(g.chunks, hit.chunk_index)]])

\* the grouping loop of _retrieve_from_summary: doc_groups (a dict, kept
\* in insertion order) after the hits from position i on were added
RECURSIVE GroupHits(_, _, _, _)
GroupHits(found, i, vector_weight, groups) ==
    IF i > Len(found) THEN groups
    ELSE LET hit == found[i].doc
             normalized_score == Weighted(Sim(found[i].distance), vector_weight)
             at == {j \in 1..Len(groups) : groups[j].knowledge_id = hit.knowledge_id}
             opened == IF at # {} THEN groups
                       ELSE Append(groups, [knowledge_id |-> hit.knowledge_id,
                                            name |-> hit.name,
                                            chunks |-> <<>>,
                                            score |-> normalized_score])
             j == CHOOSE x \in 1..Len(opened) : opened[x].knowledge_id = hit.knowledge_id
             g == opened[j]
         IN  GroupHits(found, i + 1, vector_weight,
                 [opened EXCEPT ![j] =
                     [g EXCEPT !.score = IF normalized_score > g.score
                                         THEN normalized_score ELSE g.score,
                               !.chunks = IF \E c \in 1..Len(g.chunks) :
                                                   g.chunks[c] = hit.chunk_index
                                          THEN g.chunks
                                          ELSE Append(g.chunks, hit.chunk_index)]])

\* the chunks of a group left in the order the search returned them
InRetrievalOrder(chunks) == chunks

\* sorted(group["chunks"], key = index): stable, ascending
RECURSIVE Ascending(_)
Ascending(chunks) ==
    IF chunks = <<>> THEN <<>>
    ELSE LET rest == Ascending(SubSeq(chunks, 1, Len(chunks) - 1))
             c == chunks[Len(chunks)]
             before == SelectSeq(rest, LAMBDA x : x <= c)
             after == SelectSeq(rest, LAMBDA x : x > c)
         IN  before \o <<c>> \o after

RetrieveFromSummary(q, knowledge_ids, top_k, vector_weight, storeOk) ==
    IF ~storeOk THEN <<>>
    ELSE LET found == NearestSummary(Filtered(summary, knowledge_ids), q, top_k * 3)
             sorted_docs == Take(SortByScore(GroupHits(found, 1, vector_weight, <<>>)), top_k)
         IN  [i \in 1..Len(sorted_docs) |->
                 [doc |-> [knowledge_id |-> sorted_docs[i].knowledge_id,
                           name |-> sorted_docs[i].name,
                           chunk_indices |-> Ascending(sorted_docs[i].chunks)],
                  score |-> sorted_docs[i].score]]

\* HybridRetriever.retrieve
Retrieve(q, knowledge_ids, index_type, top_k, vector_weight, bm25_weight, storeOk) ==
    IF index_type = SUMMARY
    THEN RetrieveFromSummary(q, knowledge_ids, top_k, vector_weight, storeOk)
    ELSE RetrieveFromDetail(q, knowledge_ids, top_k, vector_weight, bm25_weight, storeOk)

-----------------------------------------------------------------------------
(* DashScopeReranker *)

\* reranker.py: RERANK_THRESHOLD, the default of DashScopeReranker.threshold
RERANK_THRESHOLD == 300

\* a fallback that applies the threshold to the original scores
FallbackAboveThreshold(documents, threshold) ==
    LET kept == SelectSeq(documents, LAMBDA d : d.score >= threshold)
    IN  [i \in 1..Len(kept) |->
            [document |-> kept[i].doc,
             original_score |-> kept[i].score,
             rerank_score |-> kept[i].score,
             is_relevant |-> TRUE]]

\* _fallback_results, and the list rerank returns when api_key is unset
FallbackResults(documents, threshold) ==
    [i \in 1..Len(documents) |->
        [document |-> documents[i].doc,
         original_score |-> documents[i].score,
         rerank_score |-> documents[i].score,
         is_relevant |-> documents[i].score >= threshold]]

\* the loop over result["output"]["results"]: one RerankResult per item
\* whose index is in range, in the order of the items
RECURSIVE ParseItems(_, _, _)
ParseItems(items, documents, threshold) ==
    IF items = <<>> THEN <<>>
    ELSE LET item == Head(items)
             rest == ParseItems(Tail(items), documents, threshold)
         IN  IF item.index < Len(documents)
             THEN <<[document |-> documents[item.index + 1].doc,
                     original_score |-> documents[item.index + 1].score,
                     rerank_score |-> item.relevance_score,
                     is_relevant |-> item.relevance_score >= threshold,
                     score |-> item.relevance_score]>> \o rest
             ELSE rest

\* [r for r in results if r.is_relevant]
RECURSIVE Relevant(_)
Relevant(results) ==
    IF results = <<>> THEN <<>>
    ELSE IF Head(results).is_relevant THEN <<Head(results)>> \o Relevant(Tail(results))
    ELSE Relevant(Tail(results))

\* DashScopeReranker.rerank(query, documents) with top_k = None.  api:
\* what the relevance capability does: [kind |-> "raise"], [kind |->
\* "status", items |-> <<>>] (a status other than 200) or [kind |-> "ok",
\* items |-> the result items], each item an index and a relevance_score.
Rerank(documents, api_key, threshold, api) ==
    IF documents = <<>> THEN <<>>
    ELSE IF ~api_key THEN FallbackResults(documents, threshold)
    ELSE IF api.kind # "ok" THEN FallbackResults(documents, threshold)
    ELSE LET sorted == SortByScore(ParseItems(api.items, documents, threshold))
             relevant_results == Relevant(sorted)
         IN  [i \in 1..Len(relevant_results) |->
                 [document |-> relevant_results[i].document,
                  original_score |-> relevant_results[i].original_score,
                  rerank_score |-> relevant_results[i].rerank_score,
                  is_relevant |-> relevant_results[i].is_relevant]]

-----------------------------------------------------------------------------
(* _filter_used_sources: an answer is a sequence of characters *)

\* the decimal digits, which \d matches and int() reads
DigitChars == <<"0", "1", "2", "3", "4", "5", "6", "7", "8", "9">>

IsDigit(c) == \E i \in 1..Len(DigitChars) : DigitChars[i] = c

DigitValue(c) == (CHOOSE i \in 1..Len(DigitChars) : DigitChars[i] = c) - 1

\* int(match): the number a run of digits denotes
RECURSIVE ToInt(_)
ToInt(digits) ==
    IF digits = <<>> THEN 0
    ELSE ToInt(SubSeq(digits, 1, Len(digits) - 1)) * 10 + DigitValue(digits[Len(digits)])

\* f"{n}": the decimal digits of a number
RECURSIVE Str(_)
Str(n) ==
    IF n < 10 THEN <<DigitChars[n + 1]>>
    ELSE Str(n \div 10) \o <<DigitChars[(n % 10) + 1]>>

\* the end of the run of digits that starts at position i: the first
\* position from i on that holds no digit
RECURSIVE DigitRunEnd(_, _)
DigitRunEnd(s, i) ==
    IF i <= Len(s) /\ IsDigit(s[i]) THEN DigitRunEnd(s, i + 1) ELSE i

\* the pattern \[(\d+)\] matches at position i
MatchAt(s, i) ==
    /\ s[i] = "["
    /\ LET j == DigitRunEnd(s, i + 1)
       IN  j > i + 1 /\ j <= Len(s) /\ s[j] = "]"

\* re.findall(pattern, answer) from position i: the digits of every match,
\* left to right, matches not overlapping
RECURSIVE FindAll(_, _)
FindAll(s, i) ==
    IF i > Len(s) THEN <<>>
    ELSE IF MatchAt(s, i)
         THEN LET j == DigitRunEnd(s, i + 1)
              IN  <<SubSeq(s, i + 1, j - 1)>> \o FindAll(s, j + 1)
         ELSE FindAll(s, i + 1)

\* the loop over matches: the 0-based indices cited, in range, each once,
\* in order of first appearance
RECURSIVE CitedIndices(_, _, _)
CitedIndices(matches, n, cited_indices) ==
    IF matches = <<>> THEN cited_indices
    ELSE LET idx == ToInt(Head(matches)) - 1
             seen == {cited_indices[i] : i \in 1..Len(cited_indices)}
         IN  IF 0 <= idx /\ idx < n /\ idx \notin seen
             THEN CitedIndices(Tail(matches), n, Append(cited_indices, idx))
             ELSE CitedIndices(Tail(matches), n, cited_indices)

\* sorted(cited_indices)
RECURSIVE Sorted(_)
Sorted(indices) ==
    IF indices = <<>> THEN <<>>
    ELSE LET least == CHOOSE i \in 1..Len(indices) :
                          \A j \in 1..Len(indices) : indices[i] <= indices[j]
         IN  <<indices[least]>>
             \o Sorted([k \in 1..(Len(indices) - 1) |->
                           IF k < least THEN indices[k] ELSE indices[k + 1]])

\* a renumbering in order of first appearance
OldToNewByAppearance(cited_indices) ==
    [old_num \in {cited_indices[i] + 1 : i \in 1..Len(cited_indices)} |->
        CHOOSE new_num \in 1..Len(cited_indices) : cited_indices[new_num] + 1 = old_num]

\* old_to_new: the old 1-based number of each cited source to its new one
OldToNew(cited_indices) ==
    LET ordered == Sorted(cited_indices)
    IN  [old_num \in {ordered[i] + 1 : i \in 1..Len(ordered)} |->
            CHOOSE new_num \in 1..Len(ordered) : ordered[new_num] + 1 = old_num]

\* re.sub(pattern, replace_citation, answer) from position i
RECURSIVE Sub(_, _, _)
Sub(s, i, old_to_new) ==
    IF i > Len(s) THEN <<>>
    ELSE IF MatchAt(s, i)
         THEN LET j == DigitRunEnd(s, i + 1)
                  old_num == ToInt(SubSeq(s, i + 1, j - 1))
              IN  (IF old_num \in DOMAIN old_to_new
                   THEN <<"[">> \o Str(old_to_new[old_num]) \o <<"]">>
                   ELSE SubSeq(s, i, j))
                  \o Sub(s, j + 1, old_to_new)
         ELSE <<s[i]>> \o Sub(s, i + 1, old_to_new)

\* the cited sources in order of first appearance
UsedSourcesByAppearance(sources, cited_indices) ==
    [i \in 1..Len(cited_indices) |-> sources[cited_indices[i] + 1]]

\* used_sources: the cited sources, in ascending order of their index
UsedSources(sources, cited_indices) ==
    LET ordered == Sorted(cited_indices)
    IN  [i \in 1..Len(ordered) |-> sources[ordered[i] + 1]]

\* _filter_used_sources(answer, sources)
FilterUsedSources(answer, sources) ==
    IF sources = <<>> THEN [answer |-> answer, used_sources |-> <<>>]
    ELSE LET matches == FindAll(answer, 1)
             cited_indices == CitedIndices(matches, Len(sources), <<>>)
         IN  IF matches = <<>> \/ cited_indices = <<>>
             THEN [answer |-> answer, used_sources |-> <<>>]
             ELSE [answer |-> Sub(answer, 1, OldToNew(cited_indices)),
                   used_sources |-> UsedSources(sources, cited_indices)]

-----------------------------------------------------------------------------
(* The index life cycle: ingests and removes in any order *)

Users == {"u1", "system"}

\* the documents ingested in the life cycle: 1..MaxChunks large chunks of
\* one small chunk each
FlatShapes == {[i \in 1..n |-> 1] : n \in 1..MaxChunks}

\* what the chunker and the summarizer make of a text, and what can go
\* wrong while it is ingested: a blank text reaches neither of them, nor a
\* store
ShapesOf(text) == IF IsBlank(text) THEN {<<>>} ELSE FlatShapes

SummariesOf(text) == IF IsBlank(text) THEN {0} ELSE 1..MaxSummaries

FaultsOn(text) == IF IsBlank(text) THEN {"none"} ELSE Faults

BuildOutcomesOn(text) == IF IsBlank(text) THEN {"ok"} ELSE BuildOutcomes

Init ==
    /\ detail = {}
    /\ summary = {}
    /\ bm25_docs = <<>>
    /\ bm25_metadata = <<>>
    /\ bm25_index = NoIndex
    /\ resp = Response("none", NoKid, FALSE, "none", "none", "none", "none")
    /\ call = NoCall
    /\ result = <<>>
    /\ rerank_in = NoCall
    /\ rerank_out = <<>>
    /\ cite_in = NoCall
    /\ cite_out = NoCall
    /\ invoked = NoCall
    /\ returned = NoCall
    /\ chat = NoCall
    /\ inflight = {}

Add ==
    /\ UNCHANGED <<retrVars, rerankVars, citeVars, callVars, chat, inflight>>
    /\ \E text \in Texts :
       \E shape \in ShapesOf(text), nsum \in SummariesOf(text),
          fault \in FaultsOn(text), outcome \in BuildOutcomesOn(text) :
        add_knowledge("u1", "a.md", PERSONAL, text, shape, nsum, fault, outcome)

AddFromCourse ==
    /\ UNCHANGED <<retrVars, rerankVars, citeVars, callVars, chat, inflight>>
    /\ \E c \in CourseIds, f \in FileIds, text \in Texts :
       \E shape \in ShapesOf(text), nsum \in SummariesOf(text),
          fault \in FaultsOn(text), outcome \in BuildOutcomesOn(text) :
        add_course_resource_to_knowledge(c, f, "b.md", text, shape, nsum, fault, outcome)

Delete ==
    /\ UNCHANGED <<retrVars, rerankVars, citeVars, callVars, chat, inflight>>
    /\ \E k \in Kids, u \in Users, fault \in Faults, outcome \in BuildOutcomes :
        delete_knowledge(k, u, fault, outcome)

Next == Add \/ AddFromCourse \/ Delete

Spec == Init /\ [][Next]_vars

-----------------------------------------------------------------------------
(* Claims about the index life cycle *)

ChunkIdsOf(k) == {r.chunk_id : r \in GetWhere(detail, k)}

SummaryIdsOf(k) == {r.id : r \in GetWhere(summary, k)}

IngestSucceeded == resp.op \in {"add", "add_course"} /\ resp.success

\* C3: whenever an ingest call for knowledge_id k has returned success, the
\* Detail Index holds the chunk rows of a document for k (one row per chunk)
\* and the Summary Index holds its summary rows (one row per chunk summary,
\* at least one).
C3_IngestSuccessPopulatesBothIndexes ==
    IngestSucceeded =>
        /\ \E shape \in FlatShapes :
              ChunkIdsOf(resp.knowledge_id) =
                  {d.chunk_id : d \in DetailDocs(Metadata(resp.knowledge_id, None, None, None), shape)}
        /\ \E n \in 1..MaxSummaries :
              SummaryIdsOf(resp.knowledge_id) =
                  {d.id : d \in SummaryDocs(Metadata(resp.knowledge_id, None, None, None), n)}

\* C4: after delete_knowledge(k) has returned success, neither the Detail
\* Index nor the Summary Index holds a row whose knowledge_id is k.
C4_DeleteSuccessLeavesNoEntry ==
    (resp.op = "delete" /\ resp.success) =>
        /\ GetWhere(detail, resp.knowledge_id) = {}
        /\ GetWhere(summary, resp.knowledge_id) = {}

\* the KeywordIndex holds exactly the small chunks of the Detail Index
KeywordIndexMatchesDetail ==
    /\ Len(bm25_docs) = Cardinality(detail)
    /\ Len(bm25_metadata) = Cardinality(detail)
    /\ {bm25_docs[i] : i \in 1..Len(bm25_docs)} = {r.chunk_id : r \in detail}
    /\ {bm25_metadata[i] : i \in 1..Len(bm25_metadata)} = detail
    /\ bm25_index = (IF detail = {} THEN NoIndex ELSE bm25_docs)

\* C5: after every add or remove that wrote or deleted rows and whose
\* rebuild did not fail reading the store, the KeywordIndex holds exactly
\* the small-chunk rows of the Detail Index; after the remove that empties
\* the Detail Index it is empty.
C5_KeywordIndexEqualsDetailIndex ==
    (resp.success /\ resp.note \in {"added", "deleted"} /\ resp.rebuild # "failed")
        => KeywordIndexMatchesDetail

\* C12: an ingest in which the Detail Index write succeeded and the Summary
\* Index write then failed returns a failure, never success.
C12_PartialWriteIsAFailure ==
    (resp.op \in {"add", "add_course"} /\ resp.fault = "summary") => ~resp.success

\* an ingest that failed at the Summary write, its chunks in the Detail Index
C12_Witness ==
    /\ resp.op = "add"
    /\ resp.fault = "summary"
    /\ ~resp.success
    /\ GetWhere(detail, resp.knowledge_id) # {}
    /\ GetWhere(summary, resp.knowledge_id) = {}

\* C13: an ingest whose extracted text is empty or whitespace-only returns a
\* failure and leaves the Detail Index, the Summary Index and the
\* KeywordIndex as they were; an ingest that returned success left at least
\* one chunk of its document in the Detail Index.
C13_BlankTextRejected ==
    /\ [][(resp'.op \in {"add", "add_course"} /\ IsBlank(resp'.text))
            => (~resp'.success /\ UNCHANGED indexVars)]_vars
    /\ [](IngestSucceeded => ChunkIdsOf(resp.knowledge_id) # {})

\* a blank ingest rejected while the indexes hold a document
C13_Witness ==
    /\ resp.op \in {"add", "add_course"}
    /\ resp.text = " "
    /\ ~resp.success
    /\ detail # {}
    /\ bm25_index # NoIndex

-----------------------------------------------------------------------------
(* Retrieval over a populated store *)

\* the largest top_k a direct retrieve call is given
MaxTopK == 2

\* QueryRouter.ROUTE_CHOICES[...]["retrieval_params"], by index type
RetrievalParams(index_type) ==
    IF index_type = SUMMARY
    THEN [top_k |-> 3, vector_weight |-> 900, bm25_weight |-> 100]
    ELSE [top_k |-> 5, vector_weight |-> 700, bm25_weight |-> 300]

\* The documents of the populated store: a personal document of any
\* chunking with MaxSummaries summaries, and a course document of one chunk
\* and one summary.
DocMetadata(k) ==
    IF k \in UuidKids THEN Metadata(k, "a.md", PERSONAL, "u1")
    ELSE Metadata(k, "b.md", COURSE, "system")

DetailRowsOf(present, shape) ==
    UNION {DetailDocs(DocMetadata(k), IF k \in UuidKids THEN shape ELSE <<1>>) :
              k \in present}

SummaryRowsOf(present) ==
    UNION {SummaryDocs(DocMetadata(k), IF k \in UuidKids THEN MaxSummaries ELSE 1) :
              k \in present}

\* Each store holds any subset of the documents, and the keyword index was
\* built over any subset (it may be stale) or never built.
InitRetrieve ==
    /\ \E shape \in Shapes, inDetail \in SUBSET Kids, inSummary \in SUBSET Kids,
          inKeyword \in SUBSET Kids :
        /\ detail = DetailRowsOf(inDetail, shape)
        /\ summary = SummaryRowsOf(inSummary)
        /\ bm25_docs = PageContents(DetailRowsOf(inKeyword, shape))
        /\ bm25_metadata = GetAll(DetailRowsOf(inKeyword, shape))
        /\ bm25_index = IF inKeyword = {} THEN NoIndex
                        ELSE PageContents(DetailRowsOf(inKeyword, shape))
    /\ resp = Response("none", NoKid, FALSE, "none", "none", "none", "none")
    /\ call = NoCall
    /\ result = <<>>
    /\ rerank_in = NoCall
    /\ rerank_out = <<>>
    /\ cite_in = NoCall
    /\ cite_out = NoCall
    /\ invoked = NoCall
    /\ returned = NoCall
    /\ chat = NoCall
    /\ inflight = {}

\* A direct call of HybridRetriever.retrieve.  retrieve reads the stores and
\* writes none, so every call starts from the populated store: the model
\* follows one call on each.
RetrieveCall ==
    /\ call = NoCall
    /\ \E q \in Queries, knowledge_ids \in SUBSET Kids,
          index_type \in {DETAIL, SUMMARY},
          top_k \in 1..MaxTopK, storeOk \in BOOLEAN :
        LET params == RetrievalParams(index_type) IN
        /\ call' = [op |-> "retrieve", query |-> q, knowledge_ids |-> knowledge_ids,
                    index_type |-> index_type, top_k |-> top_k, storeOk |-> storeOk]
        /\ result' = Retrieve(q, knowledge_ids, index_type, top_k,
                              params.vector_weight, params.bm25_weight, storeOk)
        /\ UNCHANGED <<indexVars, resp, rerankVars, citeVars, callVars, chat, inflight>>

NextRetrieve == RetrieveCall

SpecRetrieve == InitRetrieve /\ [][NextRetrieve]_vars

-----------------------------------------------------------------------------
(* Claims about retrieval *)

Called == call.op # "none"

\* C1: a retrieve call with an empty allowed_ids list returns an empty
\* result (it runs no search without a knowledge_id filter, so nothing can
\* be found).
C1_EmptyScopeEmptyResult ==
    (Called /\ call.knowledge_ids = {}) => result = <<>>

\* C2: with a non-empty allowed_ids, every candidate a retrieve call returns
\* carries a knowledge_id of allowed_ids.
C2_CandidatesWithinScope ==
    (Called /\ call.knowledge_ids # {}) =>
        \A i \in 1..Len(result) : result[i].doc.knowledge_id \in call.knowledge_ids

\* a call in which the scope removed something: a returned candidate, and a
\* stored row of a document outside allowed_ids
C2_Witness ==
    /\ Called /\ call.knowledge_ids # {}
    /\ Len(result) > 0
    /\ \E r \in detail \cup summary : r.knowledge_id \notin call.knowledge_ids
    /\ \E i \in 1..Len(bm25_metadata) :
          bm25_metadata[i].knowledge_id \notin call.knowledge_ids

DetailCalled == Called /\ call.index_type = DETAIL

\* the merged candidates of the call, before sorting and deduplication
Merged ==
    ScoredResults(call.query, call.knowledge_ids, call.top_k,
                  RetrievalParams(DETAIL).vector_weight,
                  RetrievalParams(DETAIL).bm25_weight, call.storeOk)

\* C21: in the DETAIL path no two returned candidates have the same
\* document name and the same first 100 characters of large-chunk text;
\* a returned candidate scores at least as high as every merged candidate
\* of its name and prefix; the returned list is in non-increasing order of
\* fused score.
C21_DedupKeepsTheHigherScored ==
    DetailCalled =>
        /\ \A i, j \in 1..Len(result) :
              i < j => /\ DedupKey(result[i].doc) # DedupKey(result[j].doc)
                       /\ result[i].score >= result[j].score
        /\ \A i \in 1..Len(result), m \in 1..Len(Merged) :
              DedupKey(Merged[m].doc) = DedupKey(result[i].doc)
                  => Merged[m].score <= result[i].score

\* a call that returned two candidates and dropped a lower-scored chunk
\* of the large chunk of one of them, which the searches had found first
C21_Witness ==
    /\ DetailCalled
    /\ Len(result) = 2
    /\ \E i \in 1..Len(result), m, n \in 1..Len(Merged) :
          /\ m < n
          /\ Merged[n].doc = result[i].doc
          /\ DedupKey(Merged[m].doc) = DedupKey(result[i].doc)
          /\ Merged[m].score < result[i].score

\* the weighted vector component of chunk id: that of its row when the
\* vector search returned it, else 0
VectorComponent(id) ==
    LET found == IF call.storeOk
                 THEN NearestDetail(Filtered(detail, call.knowledge_ids), call.query,
                                    call.top_k * 2)
                 ELSE <<>>
        at == {i \in 1..Len(found) : found[i].doc.chunk_id = id}
    IN  IF at = {} THEN 0
        ELSE Weighted(Sim(found[CHOOSE i \in at : TRUE].distance),
                      RetrievalParams(DETAIL).vector_weight)

\* the weighted keyword component of chunk id: its raw score over the
\* largest raw score of the corpus, weighted, when the keyword search
\* returned it, else 0
KeywordComponent(id) ==
    LET at == {i \in 1..Len(bm25_index) :
                  /\ bm25_metadata[i].chunk_id = id
                  /\ Bm25Scores(call.query)[i] > 0
                  /\ (call.knowledge_ids # {}
                        => bm25_metadata[i].knowledge_id \in call.knowledge_ids)}
    IN  IF bm25_index = NoIndex \/ at = {} THEN 0
        ELSE LET raw == Bm25Scores(call.query)
             IN  Weighted((raw[CHOOSE i \in at : TRUE] * 1000)
                              \div Max({raw[i] : i \in 1..Len(raw)}),
                          RetrievalParams(DETAIL).bm25_weight)

\* C22: in the DETAIL path the two result sets are merged by chunk_id (no
\* chunk is a candidate twice) and the final score of each candidate is
\* its weighted vector component plus its weighted keyword component, 0
\* for a method that did not return the chunk; so a candidate scores at
\* least each of its two components.
C22_FinalScoreIsTheSumOfComponents ==
    DetailCalled =>
        /\ \A m, n \in 1..Len(Merged) :
              m # n => Merged[m].doc.chunk_id # Merged[n].doc.chunk_id
        /\ \A m \in 1..Len(Merged) :
              LET id == Merged[m].doc.chunk_id IN
              /\ Merged[m].score = VectorComponent(id) + KeywordComponent(id)
              /\ Merged[m].score >= VectorComponent(id)
              /\ Merged[m].score >= KeywordComponent(id)
        /\ \A i \in 1..Len(result) :
              result[i].score = VectorComponent(result[i].doc.chunk_id)
                                + KeywordComponent(result[i].doc.chunk_id)

\* a call with a candidate both methods found and one only the keyword
\* search found, both returned
C22_Witness ==
    /\ DetailCalled
    /\ \E i \in 1..Len(result) :
          /\ VectorComponent(result[i].doc.chunk_id) > 0
          /\ KeywordComponent(result[i].doc.chunk_id) > 0
    /\ \E i \in 1..Len(result) :
          /\ VectorComponent(result[i].doc.chunk_id) = 0
          /\ KeywordComponent(result[i].doc.chunk_id) > 0

-----------------------------------------------------------------------------
(* Reranking of a candidate list *)

\* the longest candidate list handed to rerank
MaxDocs == 2

\* fused scores and relevance scores: below, at and above RERANK_THRESHOLD
ScoreSet == {RERANK_THRESHOLD - 100, RERANK_THRESHOLD, RERANK_THRESHOLD + 100}

\* candidate lists: candidate i is document i, with any score, in any order
CandidateLists ==
    UNION {{[i \in 1..n |-> [doc |-> i, score |-> f[i]]] : f \in [1..n -> ScoreSet]} :
              n \in 0..MaxDocs}

\* the answers of the relevance capability for n documents: it raises, it
\* answers with a status other than 200, or it scores every document (the
\* items in index order)
ApiAnswers(n) ==
    {[kind |-> "raise", items |-> <<>>], [kind |-> "status", items |-> <<>>]}
    \cup {[kind |-> "ok",
           items |-> [i \in 1..n |-> [index |-> i - 1, relevance_score |-> f[i]]]] :
             f \in [1..n -> ScoreSet]}

InitRerank ==
    /\ detail = {}
    /\ summary = {}
    /\ bm25_docs = <<>>
    /\ bm25_metadata = <<>>
    /\ bm25_index = NoIndex
    /\ resp = Response("none", NoKid, FALSE, "none", "none", "none", "none")
    /\ call = NoCall
    /\ result = <<>>
    /\ rerank_in = NoCall
    /\ rerank_out = <<>>
    /\ cite_in = NoCall
    /\ cite_out = NoCall
    /\ invoked = NoCall
    /\ returned = NoCall
    /\ chat = NoCall
    /\ inflight = {}

\* A call of DashScopeReranker.rerank.  rerank reads its arguments and the
\* reranker's two fields only, so every call starts alike: the model
\* follows one call.
RerankCall ==
    /\ rerank_in = NoCall
    /\ \E documents \in CandidateLists, api_key \in BOOLEAN :
       \E api \in ApiAnswers(Len(documents)) :
        /\ rerank_in' = [op |-> "rerank", documents |-> documents, api_key |-> api_key,
                         threshold |-> RERANK_THRESHOLD, api |-> api.kind]
        /\ rerank_out' = Rerank(documents, api_key, RERANK_THRESHOLD, api)
        /\ UNCHANGED <<indexVars, resp, retrVars, citeVars, callVars, chat, inflight>>

NextRerank == RerankCall

SpecRerank == InitRerank /\ [][NextRerank]_vars

-----------------------------------------------------------------------------
(* Claims about reranking *)

Reranked == rerank_in.op = "rerank"

\* the relevance capability was not asked (no API key) or did not answer
Unavailable == Reranked /\ (~rerank_in.api_key \/ rerank_in.api # "ok")

\* C9: every candidate rerank returns has rerank_score >= threshold, on
\* every path (the capability answered, it failed, the API key is missing).
C9_ReturnedAtOrAboveThreshold ==
    Reranked =>
        \A i \in 1..Len(rerank_out) : rerank_out[i].rerank_score >= rerank_in.threshold

\* C10: when the relevance capability is unavailable (no API key, a status
\* other than 200, a raise), rerank returns the input candidates, in their
\* order, each with rerank_score equal to its original fused score.
C10_FallbackKeepsCandidates ==
    Unavailable =>
        /\ Len(rerank_out) = Len(rerank_in.documents)
        /\ \A i \in 1..Len(rerank_out) :
              /\ rerank_out[i].document = rerank_in.documents[i].doc
              /\ rerank_out[i].rerank_score = rerank_in.documents[i].score
              /\ rerank_out[i].original_score = rerank_in.documents[i].score

\* a fallback that kept a candidate the threshold would have removed
C10_Witness ==
    /\ Unavailable
    /\ rerank_in.api_key
    /\ rerank_in.api = "raise"
    /\ \E i \in 1..Len(rerank_out) : rerank_out[i].rerank_score < rerank_in.threshold
    /\ \E i \in 1..Len(rerank_out) : rerank_out[i].rerank_score > rerank_in.threshold

-----------------------------------------------------------------------------
(* Citation reconciliation *)

\* the most pieces an answer is put together from
MaxSegments == 3

\* the longest source list
MaxSources == 3

\* the pieces of an answer: single characters, the start of a marker, and
\* whole markers
Segments ==
    {<<"[">>, <<"]">>, <<"1">>, <<"x">>, <<"[", "0">>,
     <<"[", "0", "]">>, <<"[", "1", "]">>, <<"[", "2", "]">>, <<"[", "3", "]">>}

RECURSIVE Flatten(_)
Flatten(segs) == IF segs = <<>> THEN <<>> ELSE Head(segs) \o Flatten(Tail(segs))

Answers ==
    UNION {{Flatten(segs) : segs \in [1..n -> Segments]} : n \in 0..MaxSegments}

\* source lists: source i is the i-th of the list
SourceLists == {[i \in 1..n |-> [name |-> i]] : n \in 0..MaxSources}

InitCite ==
    /\ detail = {}
    /\ summary = {}
    /\ bm25_docs = <<>>
    /\ bm25_metadata = <<>>
    /\ bm25_index = NoIndex
    /\ resp = Response("none", NoKid, FALSE, "none", "none", "none", "none")
    /\ call = NoCall
    /\ result = <<>>
    /\ rerank_in = NoCall
    /\ rerank_out = <<>>
    /\ cite_in = NoCall
    /\ cite_out = NoCall
    /\ invoked = NoCall
    /\ returned = NoCall
    /\ chat = NoCall
    /\ inflight = {}

\* A call of _filter_used_sources, a function of its two arguments: the
\* model follows one call.
FilterCall ==
    /\ cite_in = NoCall
    /\ \E answer \in Answers, sources \in SourceLists :
        /\ cite_in' = [op |-> "filter", answer |-> answer, sources |-> sources]
        /\ cite_out' = [op |-> "filter"] @@ FilterUsedSources(answer, sources)
        /\ UNCHANGED <<indexVars, resp, retrVars, rerankVars, callVars, chat, inflight>>

NextCite == FilterCall

SpecCite == InitCite /\ [][NextCite]_vars

-----------------------------------------------------------------------------
(* Claims about citation reconciliation *)

Reconciled == cite_in.op = "filter"

\* a bracketed integer marker of s: an opening bracket at position i, a
\* closing bracket at position j, and one or more digits in between
IsMarker(s, i, j) ==
    /\ i + 1 < j
    /\ s[i] = "["
    /\ s[j] = "]"
    /\ \A k \in (i + 1)..(j - 1) : IsDigit(s[k])

MarkerSpans(s) ==
    {span \in {i \in 1..Len(s) : s[i] = "["} \X {j \in 1..Len(s) : s[j] = "]"} :
        IsMarker(s, span[1], span[2])}

\* the markers of s from left to right, each with its number
MarkersOf(s) ==
    LET spans == MarkerSpans(s)
        nth[k \in 1..Cardinality(spans)] ==
            CHOOSE span \in spans :
                Cardinality({other \in spans : other[1] < span[1]}) = k - 1
    IN  [k \in 1..Cardinality(spans) |->
            [from |-> nth[k][1], to |-> nth[k][2],
             number |-> ToInt(SubSeq(s, nth[k][1] + 1, nth[k][2] - 1))]]

\* the text of s outside its markers, each marker replaced by one sign
Skeleton(s) ==
    LET spans == MarkerSpans(s)
        F[i \in 1..(Len(s) + 1)] ==
            IF i > Len(s) THEN <<>>
            ELSE IF \E span \in spans : span[1] = i
                 THEN <<"#">> \o F[(CHOOSE span \in spans : span[1] = i)[2] + 1]
                 ELSE <<s[i]>> \o F[i + 1]
    IN  F[1]

\* the 1-based indices of the sources the answer cites with an in-range marker
CitedSet(answer, sources) ==
    LET numbers == {ToInt(SubSeq(answer, span[1] + 1, span[2] - 1)) :
                       span \in MarkerSpans(answer)}
    IN  numbers \cap (1..Len(sources))

\* C6: used_sources is exactly the sources cited by an in-range marker, in
\* ascending original order; the markers are renumbered densely 1..n in
\* that order; with no in-range marker used_sources is empty and the answer
\* is returned unchanged.
C6_UsedSourcesAreTheCitedOnes ==
    Reconciled =>
        LET sources == cite_in.sources
            cited == CitedSet(cite_in.answer, sources)
            rank(m) == Cardinality({c \in cited : c <= m})
            old == MarkersOf(cite_in.answer)
            new == MarkersOf(cite_out.answer)
        IN  /\ Len(cite_out.used_sources) = Cardinality(cited)
            /\ \A m \in cited : cite_out.used_sources[rank(m)] = sources[m]
            /\ Len(new) = Len(old)
            /\ \A k \in 1..Len(old) :
                  old[k].number \in cited => new[k].number = rank(old[k].number)
            /\ cited = {} => cite_out.answer = cite_in.answer

\* an answer that cites source 3 before source 1, and not source 2
C6_Witness ==
    /\ Reconciled
    /\ Len(cite_in.sources) = 3
    /\ cite_in.answer = <<"[", "3", "]", "[", "1", "]">>
    /\ cite_out.answer = <<"[", "2", "]", "[", "1", "]">>
    /\ Len(cite_out.used_sources) = 2

\* C7: in the rewritten answer every marker [n] with 1 <= n <=
\* len(used_sources) stands where an original marker [m] stood, and
\* sources[m-1] is used_sources[n-1]; every original marker out of range is
\* left as it was and carries no new number.
C7_MarkersPairWithUsedSources ==
    Reconciled =>
        LET sources == cite_in.sources
            used == cite_out.used_sources
            old == MarkersOf(cite_in.answer)
            new == MarkersOf(cite_out.answer)
        IN  /\ Skeleton(cite_out.answer) = Skeleton(cite_in.answer)
            /\ Len(new) = Len(old)
            /\ \A k \in 1..Len(new) :
                  new[k].number \in 1..Len(used) =>
                      /\ old[k].number \in 1..Len(sources)
                      /\ sources[old[k].number] = used[new[k].number]
            /\ \A k \in 1..Len(old) :
                  old[k].number \notin 1..Len(sources) =>
                      /\ SubSeq(cite_out.answer, new[k].from, new[k].to)
                           = SubSeq(cite_in.answer, old[k].from, old[k].to)
                      /\ new[k].number \notin 1..Len(used)

\* an answer with an in-range marker that is renumbered, next to a marker
\* 0 and a marker beyond the source list
C7_Witness ==
    /\ Reconciled
    /\ Len(cite_in.sources) = 2
    /\ cite_in.answer = <<"[", "0", "]", "[", "2", "]", "[", "3", "]">>
    /\ cite_out.answer = <<"[", "0", "]", "[", "1", "]", "[", "3", "]">>
    /\ Len(cite_out.used_sources) = 1

-----------------------------------------------------------------------------
(* QueryRouter *)

\* the longest answer of the decision capability, in words
MaxWords == 2

\* ROUTE_CHOICES[name]
RouteChoice(name) ==
    IF name = "GLOBAL"
    THEN [query_type |-> "global", index_type |-> SUMMARY,
          retrieval_params |-> RetrievalParams(SUMMARY) @@ [use_large_chunk |-> FALSE]]
    ELSE [query_type |-> "detail", index_type |-> DETAIL,
          retrieval_params |-> RetrievalParams(DETAIL) @@ [use_large_chunk |-> TRUE]]

\* the words an answer of the decision capability is made of; "zhaiyao"
\* and "zongjie" stand for the two Chinese words route looks for (U+6458
\* U+8981 and U+603B U+7ED3), which have no upper case
Words == {"DETAIL", "GLOBAL", "detail", "global", "BOTH", "zhaiyao", "zongjie"}

\* str.upper() of a word
Upper(word) ==
    IF word = "detail" THEN "DETAIL"
    ELSE IF word = "global" THEN "GLOBAL"
    ELSE word

\* What the decision capability does: it raises, or it answers a text.  A
\* well-formed text parses into a RouteDecision whose index_type is its
\* first word; any other text makes parser.parse raise.
LlmAnswers ==
    {[kind |-> "raise", text |-> <<>>, wellformed |-> FALSE]}
    \cup {[kind |-> "text", text |-> t, wellformed |-> w] :
             t \in UNION {[1..n -> Words] : n \in 0..MaxWords}, w \in BOOLEAN}

\* parser.parse(result_text): the decision's index_type, or a raise
Parse(answer) ==
    IF answer.wellformed /\ answer.text # <<>>
    THEN [raised |-> FALSE, index_type |-> Head(answer.text)]
    ELSE [raised |-> TRUE, index_type |-> ""]

\* the body of the outer try of route: a raise of llm.invoke leaves it
RouteTry(answer) ==
    IF answer.kind = "raise" THEN [raised |-> TRUE, choice |-> RouteChoice("DETAIL")]
    ELSE LET decision == Parse(answer)
             result_upper == [i \in 1..Len(answer.text) |-> Upper(answer.text[i])]
             mentions(word, text) == \E i \in 1..Len(text) : text[i] = word
         IN  IF ~decision.raised
             THEN IF Upper(decision.index_type) \in {"DETAIL", "GLOBAL"}
                  THEN [raised |-> FALSE, choice |-> RouteChoice(Upper(decision.index_type))]
                  ELSE [raised |-> FALSE, choice |-> RouteChoice("DETAIL")]
             ELSE IF \/ mentions("GLOBAL", result_upper)
                     \/ mentions("zhaiyao", answer.text)
                     \/ mentions("zongjie", answer.text)
                  THEN [raised |-> FALSE, choice |-> RouteChoice("GLOBAL")]
                  ELSE [raised |-> FALSE, choice |-> RouteChoice("DETAIL")]

\* route without its outer except
RouteNoCatch(answer) == RouteTry(answer)

\* QueryRouter.route(query): the outer except answers the DETAIL choice
Route(answer) ==
    IF RouteTry(answer).raised
    THEN [raised |-> FALSE, choice |-> RouteChoice("DETAIL")]
    ELSE RouteTry(answer)

InitRoute ==
    /\ detail = {}
    /\ summary = {}
    /\ bm25_docs = <<>>
    /\ bm25_metadata = <<>>
    /\ bm25_index = NoIndex
    /\ resp = Response("none", NoKid, FALSE, "none", "none", "none", "none")
    /\ call = NoCall
    /\ result = <<>>
    /\ rerank_in = NoCall
    /\ rerank_out = <<>>
    /\ cite_in = NoCall
    /\ cite_out = NoCall
    /\ invoked = NoCall
    /\ returned = NoCall
    /\ chat = NoCall
    /\ inflight = {}

\* A call of QueryRouter.route, which reads the capability's answer only:
\* the model follows one call.
RouteCall ==
    /\ invoked = NoCall
    /\ \E answer \in LlmAnswers :
        /\ invoked' = [op |-> "route", answer |-> answer]
        /\ returned' = [op |-> "route"] @@ Route(answer)
        /\ UNCHANGED <<indexVars, resp, retrVars, rerankVars, citeVars, chat, inflight>>

NextRoute == RouteCall

SpecRoute == InitRoute /\ [][NextRoute]_vars

-----------------------------------------------------------------------------
(* Claims about routing *)

Routed == invoked.op = "route"

\* the capability raised, or its answer parsed into an intent that is
\* neither DETAIL nor GLOBAL
IntentUnrecognized ==
    \/ invoked.answer.kind = "raise"
    \/ /\ invoked.answer.wellformed
       /\ invoked.answer.text # <<>>
       /\ Upper(Head(invoked.answer.text)) \notin {"DETAIL", "GLOBAL"}

\* C11: route never raises; whatever the decision capability does it
\* returns the DETAIL configuration (top_k 5, weights 0.7 / 0.3, large
\* chunks) or the GLOBAL one (top_k 3, weights 0.9 / 0.1, no large chunks),
\* and the DETAIL one when the capability raised or the intent is
\* unrecognized.
C11_RouteAlwaysReturnsAChoice ==
    Routed =>
        LET detailChoice ==
                [query_type |-> "detail", index_type |-> DETAIL,
                 retrieval_params |-> [top_k |-> 5, vector_weight |-> 700,
                                       bm25_weight |-> 300, use_large_chunk |-> TRUE]]
            globalChoice ==
                [query_type |-> "global", index_type |-> SUMMARY,
                 retrieval_params |-> [top_k |-> 3, vector_weight |-> 900,
                                       bm25_weight |-> 100, use_large_chunk |-> FALSE]]
        IN  /\ ~returned.raised
            /\ returned.choice \in {detailChoice, globalChoice}
            /\ IntentUnrecognized => returned.choice = detailChoice

\* the capability raised and route answered the DETAIL choice
C11_Witness ==
    /\ Routed
    /\ invoked.answer.kind = "raise"
    /\ ~returned.raised
    /\ returned.choice.index_type = DETAIL

-----------------------------------------------------------------------------
(* Rebuilds of the keyword index that may fail part-way *)
\* Every endpoint is a coroutine on one event loop, and no endpoint awaits
\* between its first store call and its return: a rebuild and a retrieval
\* run one after the other, never inside each other.  The stores answer
\* here; the rebuild may fail reading the store or building the index.

IngestAndRebuild ==
    /\ UNCHANGED <<retrVars, rerankVars, citeVars, callVars, chat, inflight>>
    /\ \/ \E shape \in FlatShapes, outcome \in PartialBuildOutcomes :
            add_knowledge("u1", "a.md", PERSONAL, "doc", shape, 1, "none", outcome)
       \/ \E c \in CourseIds, f \in FileIds, shape \in FlatShapes,
             outcome \in PartialBuildOutcomes :
            add_course_resource_to_knowledge(c, f, "b.md", "doc", shape, 1, "none", outcome)

RemoveAndRebuild ==
    /\ UNCHANGED <<retrVars, rerankVars, citeVars, callVars, chat, inflight>>
    /\ \E k \in Kids, u \in Users, outcome \in PartialBuildOutcomes :
        delete_knowledge(k, u, "none", outcome)

NextRebuild == IngestAndRebuild \/ RemoveAndRebuild

SpecRebuild == Init /\ [][NextRebuild]_vars

\* C17: a DETAIL retrieval reads bm25_index, bm25_docs and bm25_metadata of
\* one build: the text list and the metadata list are those of the corpus
\* the index scores, position by position, also after a rebuild that
\* failed part-way (_bm25_search reads the lists only when an index is
\* built).
C17_KeywordIndexOfOneBuild ==
    bm25_index # NoIndex =>
        /\ bm25_index = bm25_docs
        /\ Len(bm25_metadata) = Len(bm25_index)
        /\ \A i \in 1..Len(bm25_index) : bm25_metadata[i].chunk_id = bm25_index[i]

-----------------------------------------------------------------------------
(* HierarchicalChunker._split_into_chunks *)
\* A semantic unit is the record the unit parser makes, with its text given
\* as the lengths of its sentences (a sentence with its terminator, as
\* _split_by_sentences cuts it).  The text a chunk holds is the sequence of
\* the sentences it was put together from: the sentence <<u, s>> is
\* sentence s of unit u of the document.

\* the largest number of semantic units of a document
MaxUnits == 3

large_chunk_size == 1024

UnitKinds ==
    { [type |-> "heading", level |-> 1, sentences |-> <<20>>],
      [type |-> "heading", level |-> 3, sentences |-> <<20>>],
      [type |-> "heading", level |-> 2, sentences |-> <<600, 600>>],
      [type |-> "paragraph", level |-> 99, sentences |-> <<500>>],
      [type |-> "paragraph", level |-> 99, sentences |-> <<700, 323>>],
      [type |-> "list", level |-> 99, sentences |-> <<400, 400, 400>>],
      [type |-> "paragraph", level |-> 99, sentences |-> <<1100>>],
      [type |-> "paragraph", level |-> 99, sentences |-> <<300, 900, 30>>] }

Documents == UNION { [1..n -> UnitKinds] : n \in 0..MaxUnits }

RECURSIVE SumOf(_)
SumOf(lens) == IF lens = <<>> THEN 0 ELSE Head(lens) + SumOf(Tail(lens))

\* len(unit_text)
UnitLen(unit) == SumOf(unit.sentences)

\* the sentences of unit u, in reading order
UnitText(u, unit) == [s \in 1..Len(unit.sentences) |-> <<u, s>>]

\* the loop of _split_by_sentences from sentence s on; a buffer is the
\* text gathered and its length
RECURSIVE SentenceLoop(_, _, _, _, _, _)
SentenceLoop(u, unit, s, buffer, chunks, chunk_size) ==
    IF s > Len(unit.sentences)
    THEN IF buffer.text # <<>> THEN Append(chunks, buffer.text) ELSE chunks
    ELSE LET sentence == unit.sentences[s]
         IN  IF buffer.len + sentence <= chunk_size
             THEN SentenceLoop(u, unit, s + 1,
                               [text |-> Append(buffer.text, <<u, s>>),
                                len |-> buffer.len + sentence],
                               chunks, chunk_size)
             ELSE SentenceLoop(u, unit, s + 1,
                               [text |-> << <<u, s>> >>, len |-> sentence],
                               IF buffer.text # <<>>
                               THEN Append(chunks, buffer.text) ELSE chunks,
                               chunk_size)

split_by_sentences(u, unit, chunk_size) ==
    SentenceLoop(u, unit, 1, [text |-> <<>>, len |-> 0], <<>>, chunk_size)

EmptyChunk == [text |-> <<>>, len |-> 0]

\* a variant of the loop body that starts the chunk of a major heading
\* without saving the chunk gathered so far
PlaceUnitUnsaved(state, u, unit, chunk_size) ==
    LET current == state.current
        chunks == state.chunks
        is_major_heading == unit.type = "heading" /\ unit.level <= 2
        saved == IF current.text # <<>> THEN Append(chunks, current.text) ELSE chunks
    IN  IF is_major_heading /\ current.text # <<>>
        THEN [current |-> [text |-> UnitText(u, unit), len |-> UnitLen(unit) + 2],
              chunks |-> chunks]
        ELSE IF current.len + UnitLen(unit) + 2 <= chunk_size
        THEN [current |-> [text |-> current.text \o UnitText(u, unit),
                           len |-> current.len + (IF current.len > 0 THEN 2 ELSE 0)
                                   + UnitLen(unit)],
              chunks |-> chunks]
        ELSE IF UnitLen(unit) > chunk_size
        THEN [current |-> EmptyChunk,
              chunks |-> saved \o split_by_sentences(u, unit, chunk_size)]
        ELSE [current |-> [text |-> UnitText(u, unit), len |-> UnitLen(unit)],
              chunks |-> saved]

\* the body of the loop over the semantic units: unit u is put in the
\* current chunk, or closes it
PlaceUnit(state, u, unit, chunk_size) ==
    LET current == state.current
        chunks == state.chunks
        is_major_heading == unit.type = "heading" /\ unit.level <= 2
        saved == IF current.text # <<>> THEN Append(chunks, current.text) ELSE chunks
    IN  IF is_major_heading /\ current.text # <<>>
        THEN [current |-> [text |-> UnitText(u, unit), len |-> UnitLen(unit) + 2],
              chunks |-> saved]
        ELSE IF current.len + UnitLen(unit) + 2 <= chunk_size
        THEN [current |-> [text |-> current.text \o UnitText(u, unit),
                           len |-> current.len + (IF current.len > 0 THEN 2 ELSE 0)
                                   + UnitLen(unit)],
              chunks |-> chunks]
        ELSE IF UnitLen(unit) > chunk_size
        THEN [current |-> EmptyChunk,
              chunks |-> saved \o split_by_sentences(u, unit, chunk_size)]
        ELSE [current |-> [text |-> UnitText(u, unit), len |-> UnitLen(unit)],
              chunks |-> saved]

RECURSIVE UnitLoop(_, _, _, _)
UnitLoop(semantic_units, u, state, chunk_size) ==
    IF u > Len(semantic_units) THEN state
    ELSE UnitLoop(semantic_units, u + 1,
                  PlaceUnit(state, u, semantic_units[u], chunk_size), chunk_size)

\* _split_into_chunks of a text whose parse is semantic_units; a text
\* without units comes back as the one chunk [text]
split_into_chunks(semantic_units, chunk_size) ==
    LET final == UnitLoop(semantic_units, 1,
                          [current |-> EmptyChunk, chunks |-> <<>>], chunk_size)
        chunks == IF final.current.text # <<>>
                  THEN Append(final.chunks, final.current.text)
                  ELSE final.chunks
    IN  IF chunks # <<>> THEN chunks ELSE << <<>> >>

\* A call of _split_into_chunks for the large chunks of a document: the
\* model follows one call.
SplitCall ==
    /\ invoked = NoCall
    /\ \E semantic_units \in Documents :
        /\ invoked' = [op |-> "split", units |-> semantic_units]
        /\ returned' = [op |-> "split",
                        chunks |-> split_into_chunks(semantic_units, large_chunk_size)]
        /\ UNCHANGED <<indexVars, resp, retrVars, rerankVars, citeVars, chat, inflight>>

NextChunk == SplitCall

SpecChunk == Init /\ [][NextChunk]_vars

-----------------------------------------------------------------------------
(* Claims about chunking *)

\* the sentences of the units of a document, in document order
RECURSIVE DocumentText(_, _)
DocumentText(semantic_units, u) ==
    IF u > Len(semantic_units) THEN <<>>
    ELSE UnitText(u, semantic_units[u]) \o DocumentText(semantic_units, u + 1)

\* the chunks that hold a sentence of unit u
ChunksOfUnit(chunks, u) ==
    { c \in 1..Len(chunks) : \E i \in 1..Len(chunks[c]) : chunks[c][i][1] = u }

\* C19: the large chunks, read in order, are the semantic units of the
\* document in document order, nothing dropped and nothing twice: a unit
\* within the target size lies whole in exactly one large chunk, and a
\* unit beyond it that was sentence-split has each of its sentences in
\* exactly one large chunk.
C19_ChunksCoverUnitsInOrder ==
    invoked.op = "split" =>
        /\ Flatten(returned.chunks) = DocumentText(invoked.units, 1)
        /\ \A u \in 1..Len(invoked.units) :
            UnitLen(invoked.units[u]) <= large_chunk_size
                => Cardinality(ChunksOfUnit(returned.chunks, u)) = 1

\* a unit, then a top-level heading, then a unit that was sentence-split
\* into two chunks: four chunks, the last sentence in the last one
C19_Witness ==
    /\ invoked.op = "split"
    /\ Len(invoked.units) = 3
    /\ invoked.units[1].type = "paragraph"
    /\ invoked.units[2].type = "heading" /\ invoked.units[2].level = 1
    /\ invoked.units[3].sentences = <<300, 900, 30>>
    /\ returned.chunks = << << <<1, 1>> >>, << <<2, 1>> >>,
                            << <<3, 1>> >>, << <<3, 2>>, <<3, 3>> >> >>

-----------------------------------------------------------------------------
(* DocumentSummarizer.generate_chunk_summaries *)
\* A text is a sequence of runs, a run being n times the character ch:
\* "a" stands for any character that is not white space.

\* the largest number of runs of a text
MaxRuns == 2

FALLBACK_CHARS == 500

summary_chunk_size == 2000

Runs ==
    { [ch |-> "a", n |-> 1], [ch |-> "a", n |-> 499], [ch |-> "a", n |-> 600],
      [ch |-> " ", n |-> 1], [ch |-> " ", n |-> 100] }

\* the texts an ingest hands over: the endpoints reject a blank text
Contents ==
    { t \in UNION { [1..n -> Runs] : n \in 1..MaxRuns } :
        \E i \in 1..Len(t) : t[i].ch # " " }

RECURSIVE TextLen(_)
TextLen(t) == IF t = <<>> THEN 0 ELSE Head(t).n + TextLen(Tail(t))

\* t[:k]
RECURSIVE Prefix(_, _)
Prefix(t, k) ==
    IF t = <<>> \/ k = 0 THEN <<>>
    ELSE IF Head(t).n <= k THEN <<Head(t)>> \o Prefix(Tail(t), k - Head(t).n)
    ELSE << [ch |-> Head(t).ch, n |-> k] >>

RECURSIVE LStrip(_)
LStrip(t) == IF t # <<>> /\ Head(t).ch = " " THEN LStrip(Tail(t)) ELSE t

RECURSIVE RStrip(_)
RStrip(t) ==
    IF t # <<>> /\ t[Len(t)].ch = " " THEN RStrip(SubSeq(t, 1, Len(t) - 1)) ELSE t

\* t.strip()
Strip(t) == RStrip(LStrip(t))

\* the same text with neighbouring runs of one character written as one
RECURSIVE Norm(_)
Norm(t) ==
    IF Len(t) < 2 THEN t
    ELSE IF t[1].ch = t[2].ch
    THEN Norm(<< [ch |-> t[1].ch, n |-> t[1].n + t[2].n] >> \o SubSeq(t, 3, Len(t)))
    ELSE <<t[1]>> \o Norm(Tail(t))

ChunkSummary(s, i, chunk) == [summary |-> s, chunk_index |-> i, original_chunk |-> chunk]

\* the answer of the capability for a chunk, and chunk i of _split_content,
\* whose wording the model does not follow
LlmSummary == << [ch |-> "s", n |-> 150] >>

ContentChunk(i) == << [ch |-> "c", n |-> i + 1] >>

\* generate_chunk_summaries of a content that _split_content cuts into
\* nchunks chunks, the capability raising on chunk fail_at (0: on none)
generate_chunk_summaries(content, nchunks, fail_at) ==
    IF fail_at = 0
    THEN [raised |-> FALSE,
          summaries |-> [i \in 1..nchunks |->
                            ChunkSummary(LlmSummary, i - 1, ContentChunk(i - 1))]]
    ELSE LET fallback == Strip(Prefix(content, FALLBACK_CHARS))
                         \o (IF TextLen(content) > FALLBACK_CHARS
                             THEN << [ch |-> ".", n |-> 3] >> ELSE <<>>)
         IN  [raised |-> FALSE,
              summaries |-> << ChunkSummary(fallback, 0,
                                            Prefix(content, summary_chunk_size)) >>]

\* A call of generate_chunk_summaries: the model follows one call.
SummarizeCall ==
    /\ invoked = NoCall
    /\ \E content \in Contents, nchunks \in 1..MaxSummaries :
        \E fail_at \in 0..nchunks :
            /\ invoked' = [op |-> "summarize", content |-> content,
                           nchunks |-> nchunks, fail_at |-> fail_at]
            /\ returned' = [op |-> "summarize"]
                           @@ generate_chunk_summaries(content, nchunks, fail_at)
            /\ UNCHANGED <<indexVars, resp, retrVars, rerankVars, citeVars, chat, inflight>>

NextSummarize == SummarizeCall

SpecSummarize == Init /\ [][NextSummarize]_vars

-----------------------------------------------------------------------------
(* Claims about summarizing *)

\* C15: when the summarization capability fails, generate_chunk_summaries
\* does not raise and returns exactly one ChunkSummary, of chunk_index 0,
\* whose summary is the first 500 characters of the raw text and which
\* carries a mark of low fidelity that a real summary does not carry.
C15_FallbackIsTheFlaggedPrefix ==
    (invoked.op = "summarize" /\ invoked.fail_at > 0) =>
        /\ ~returned.raised
        /\ Len(returned.summaries) = 1
        /\ returned.summaries[1].chunk_index = 0
        /\ Norm(returned.summaries[1].summary)
             = Norm(Prefix(invoked.content, FALLBACK_CHARS))
        /\ "low_fidelity" \in DOMAIN returned.summaries[1]

-----------------------------------------------------------------------------
(* The chat endpoint, from one external call to the next *)
\* chat is the request being served: where it stands (pc), its inputs, the
\* capabilities it has called, the failures that happened inside it and,
\* at the end, its response.  A step of the environment is the answer of
\* the capability the request waits for; the code between two external
\* calls runs in the step that precedes it.  The model follows one
\* request, and takes the getters of Dependencies at their first call.

Messages == {"", " ", "q"}

ChatResponse(success, error, sources) ==
    [success |-> success, error |-> error, sources |-> sources]

NoResponse == ChatResponse(FALSE, "pending", 0)

\* the request returns the response r
Returns(c, r) == [c EXCEPT !.pc = "done", !.response = r]

\* the request raised e inside the try of the endpoint
Raises(c, failure, e) ==
    Returns([c EXCEPT !.failed = @ \cup {failure}], ChatResponse(FALSE, e, 0))

\* llm.invoke of the answer, chat.py 180-188
CallsLlm(c, nsources) ==
    [c EXCEPT !.pc = "await_generate", !.called = @ \cup {"llm"}, !.sources = nsources]

\* a request arrives: its message, whether it carries an API key, whether
\* the environment configures one, and whether it names knowledge ids
ChatReceive ==
    /\ chat = NoCall
    /\ \E message \in Messages, x_api_key \in BOOLEAN, env_key \in BOOLEAN,
          scoped \in BOOLEAN :
        chat' = [op |-> "chat", pc |-> "start", message |-> message,
                 x_api_key |-> x_api_key, env_key |-> env_key, scoped |-> scoped,
                 called |-> {}, failed |-> {}, index_type |-> None,
                 sources |-> 0, response |-> NoResponse]
    /\ UNCHANGED <<indexVars, resp, retrVars, rerankVars, citeVars, callVars, inflight>>

\* chat.py 98-107: the blank test, get_llm, get_query_router, and the call
\* of the routing capability
ChatStart ==
    /\ chat.op = "chat" /\ chat.pc = "start"
    /\ chat' = IF IsBlank(chat.message)
               THEN Returns(chat, ChatResponse(FALSE, "empty_question", 0))
               ELSE IF ~(chat.x_api_key \/ chat.env_key)    \* get_llm(x_api_key)
               THEN Raises(chat, "api_key", "no_api_key")
               ELSE IF ~chat.env_key                        \* get_query_router
               THEN Raises(chat, "api_key", "no_api_key")
               ELSE [chat EXCEPT !.pc = "await_route", !.called = @ \cup {"router"}]
    /\ UNCHANGED <<indexVars, resp, retrVars, rerankVars, citeVars, callVars, inflight>>

\* the routing capability answers or raises (route then answers DETAIL);
\* chat.py 120-123: without knowledge ids no retrieval, else
\* get_hybrid_retriever and the vector search
RouteAnswers ==
    /\ chat.op = "chat" /\ chat.pc = "await_route"
    /\ \E answer \in {DETAIL, SUMMARY, "raise"} :
        LET routed == [chat EXCEPT !.index_type = IF answer = "raise"
                                                  THEN DETAIL ELSE answer]
        IN  chat' = IF ~routed.scoped THEN CallsLlm(routed, 0)
                    ELSE [routed EXCEPT !.pc = "await_search",
                                        !.called = @ \cup {"retriever"}]
    /\ UNCHANGED <<indexVars, resp, retrVars, rerankVars, citeVars, callVars, inflight>>

\* the store answers with n candidates at or above RELEVANCE_THRESHOLD, or
\* raises: _vector_search and _retrieve_from_summary log the error and
\* the retrieval returns without candidates; chat.py 134-139 calls the
\* reranker when sources are left
SearchAnswers ==
    /\ chat.op = "chat" /\ chat.pc = "await_search"
    /\ \E n \in 0..MaxTopK, raised \in BOOLEAN :
        /\ raised => n = 0
        /\ LET searched == [chat EXCEPT !.failed = IF raised THEN @ \cup {"retrieval"}
                                                   ELSE @]
           IN  chat' = IF n > 0
                       THEN [searched EXCEPT !.pc = "await_rerank", !.sources = n,
                                             !.called = @ \cup {"reranker"}]
                       ELSE CallsLlm(searched, 0)
    /\ UNCHANGED <<indexVars, resp, retrVars, rerankVars, citeVars, callVars, inflight>>

\* the reranking capability answers: m of the candidates are relevant; a
\* failed call keeps them all (_fallback_results)
RerankAnswers ==
    /\ chat.op = "chat" /\ chat.pc = "await_rerank"
    /\ \E m \in 0..chat.sources :
        chat' = CallsLlm(chat, m)
    /\ UNCHANGED <<indexVars, resp, retrVars, rerankVars, citeVars, callVars, inflight>>

\* reranker.py 123-128: requests.post(..., timeout=30) gives up on a
\* capability that does not answer, and rerank returns _fallback_results
RerankTimeout ==
    /\ chat.op = "chat" /\ chat.pc = "await_rerank"
    /\ chat' = CallsLlm(chat, chat.sources)
    /\ UNCHANGED <<indexVars, resp, retrVars, rerankVars, citeVars, callVars, inflight>>

\* the language model answers, citing some of the sources, or raises
GenerateAnswers ==
    /\ chat.op = "chat" /\ chat.pc = "await_generate"
    /\ \/ \E used \in 0..chat.sources :
            chat' = Returns(chat, ChatResponse(TRUE, None, used))
       \/ chat' = Raises(chat, "generation", "generation_failed")
    /\ UNCHANGED <<indexVars, resp, retrVars, rerankVars, citeVars, callVars, inflight>>

\* the steps the program takes by itself
ChatProgram == ChatStart \/ RerankTimeout

\* the steps that need a capability to answer
ChatEnvironment == ChatReceive \/ RouteAnswers \/ SearchAnswers \/ RerankAnswers \/ GenerateAnswers

NextChat == ChatProgram \/ ChatEnvironment

\* The program runs on when it can; nothing obliges a capability to answer.
SpecChat == Init /\ [][NextChat]_vars /\ WF_vars(ChatProgram)

-----------------------------------------------------------------------------
(* Claims about the endpoints *)

ChatDone == chat.op = "chat" /\ chat.pc = "done"

\* C14: a chat call ends in a structured response; a missing API key, a
\* retrieval error or a failure of the generation capability inside it
\* gives success=false with an error; a blank question is rejected with
\* success=false before the router, the retriever, the reranker or the
\* language model is called.
C14_FailuresAreStructuredResponses ==
    ChatDone =>
        /\ chat.response \in [success : BOOLEAN,
                              error : {None, "empty_question", "no_api_key",
                                       "generation_failed"},
                              sources : 0..MaxTopK]
        /\ chat.failed \cap {"api_key", "retrieval", "generation"} # {}
              => (~chat.response.success /\ chat.response.error # None)
        /\ IsBlank(chat.message)
              => (~chat.response.success /\ chat.called = {})

\* C20: a chat request that was received eventually returns a response,
\* also when an external capability never answers.
C20_RequestEventuallyReturns ==
    (chat.op = "chat" /\ chat.pc = "start") ~> ChatDone

-----------------------------------------------------------------------------
(* Concurrent requests on the event loop *)
\* The endpoints are coroutines of one event loop: a request runs until it
\* awaits something that suspends it, and no other request runs meanwhile.
\* An ingest suspends in parse_file_content (the parser awaits HTTP calls)
\* and in nothing after it: the existence test, the writes to both stores
\* and the rebuild run in one piece.  delete_knowledge awaits nothing.
\* inflight holds the requests received, each one parsing or done.  The
\* stores answer here.

\* the largest number of requests of a behaviour
MaxRequests == 3

Request(id, op, state, peers) == [id |-> id, op |-> op, state |-> state, peers |-> peers]

Parsing == {r \in inflight : r.state = "parsing"}

Finish(r) == (inflight \ {r}) \cup {[r EXCEPT !.state = "done"]}

\* an ingest request arrives and runs up to await parse_file_content;
\* peers are the requests suspended at that moment
ReceiveIngest ==
    /\ Cardinality(inflight) < MaxRequests
    /\ \E op \in {"add", "add_course"} :
        /\ op = "add" => (FreshKids # {} /\ \A r \in Parsing : r.op # "add")
        /\ inflight' = inflight \cup
              {Request(Cardinality(inflight) + 1, op, "parsing", {r.id : r \in Parsing})}
    /\ UNCHANGED <<indexVars, resp, retrVars, rerankVars, citeVars, callVars, chat>>

\* the loop resumes POST /knowledge/add after the parse, up to its return
ResumeAdd ==
    /\ \E r \in Parsing, shape \in FlatShapes :
        /\ r.op = "add"
        /\ add_knowledge("u1", "a.md", PERSONAL, "doc", shape, 1, "none", "ok")
        /\ inflight' = Finish(r)
    /\ UNCHANGED <<retrVars, rerankVars, citeVars, callVars, chat>>

\* the loop resumes POST /knowledge/add-from-course after the parse, up
\* to its return
ResumeAddFromCourse ==
    /\ \E r \in Parsing, c \in CourseIds, f \in FileIds, shape \in FlatShapes :
        /\ r.op = "add_course"
        /\ add_course_resource_to_knowledge(c, f, "b.md", "doc", shape, 1, "none", "ok")
        /\ inflight' = Finish(r)
    /\ UNCHANGED <<retrVars, rerankVars, citeVars, callVars, chat>>

\* DELETE /knowledge/{knowledge_id}, from arrival to return
RunDelete ==
    /\ Cardinality(inflight) < MaxRequests
    /\ \E k \in Kids, u \in Users :
        /\ delete_knowledge(k, u, "none", "ok")
        /\ inflight' = inflight \cup
              {Request(Cardinality(inflight) + 1, "delete", "done", {r.id : r \in Parsing})}
    /\ UNCHANGED <<retrVars, rerankVars, citeVars, callVars, chat>>

NextConcurrent == ReceiveIngest \/ ResumeAdd \/ ResumeAddFromCourse \/ RunDelete

SpecConcurrent == Init /\ [][NextConcurrent]_vars

-----------------------------------------------------------------------------
(* Claims about concurrent requests *)

AllComplete == inflight # {} /\ Parsing = {}

KidsOfDetail == {r.knowledge_id : r \in detail}

\* the documents a keyword search can return
KidsOfKeywordIndex ==
    IF bm25_index = NoIndex THEN {}
    ELSE {bm25_metadata[i].knowledge_id : i \in 1..Len(bm25_metadata)}

\* C16: once all concurrent add and remove requests have completed, no
\* document of the Detail Index is missing from the KeywordIndex and no
\* removed document remains in it.
C16_CompletedRequestsLeaveIndexesInStep ==
    AllComplete =>
        /\ KidsOfDetail \subseteq KidsOfKeywordIndex
        /\ KidsOfKeywordIndex \subseteq KidsOfDetail

\* the step is the run of an add-from-course request for a resource the
\* Detail Index already holds
Reingests ==
    /\ \E r \in Parsing : r.op = "add_course" /\ inflight' = Finish(r)
    /\ \E c \in CourseIds, f \in FileIds : GetWhere(detail, CourseKid(c, f)) # {}

\* the Detail and Summary entry ids of one ingest of the course resource
SingleIngestIds(k) ==
    { <<{d.chunk_id : d \in DetailDocs(Metadata(k, "b.md", COURSE, "system"), shape)},
        {s.id : s \in SummaryDocs(Metadata(k, "b.md", COURSE, "system"), 1)}>>
        : shape \in FlatShapes }

\* C18: the knowledge_id of a course resource is a function of course id
\* and file id and its chunk ids are functions of (knowledge_id, large
\* index, small index); an ingest of a course file the indexes already
\* hold, after or overlapping the first, leaves the Detail and Summary
\* indexes as they are: the entry ids are those of a single ingest, and no
\* id is stored twice.
C18_ReingestionIsIdempotent ==
    /\ [][Reingests => UNCHANGED <<detail, summary>>]_vars
    /\ [](\A c \in CourseIds, f \in FileIds :
            LET k == CourseKid(c, f) IN
            /\ GetWhere(detail, k) # {}
                 => <<ChunkIdsOf(k), SummaryIdsOf(k)>> \in SingleIngestIds(k)
            /\ \A r \in GetWhere(detail, k) :
                 r.chunk_id = <<k, r.large_chunk_index, r.small_chunk_index>>
            /\ \A r1, r2 \in GetWhere(detail, k) : r1.chunk_id = r2.chunk_id => r1 = r2
            /\ \A s1, s2 \in GetWhere(summary, k) : s1.id = s2.id => s1 = s2)

\* two overlapping ingests of the course file have both returned, the
\* second finding the resource in the Detail Index
C18_Witness ==
    /\ AllComplete
    /\ \A r \in inflight : r.op = "add_course"
    /\ \E r \in inflight : r.peers # {}
    /\ resp.op = "add_course" /\ resp.success /\ resp.note = "exists"
    /\ \E c \in CourseIds, f \in FileIds : GetWhere(detail, CourseKid(c, f)) # {}

-----------------------------------------------------------------------------
(* Claims about the summary path *)

SummaryCalled == Called /\ call.index_type = SUMMARY

\* the summary chunks the vector search of the call returned, nearest first
Found ==
    IF call.storeOk
    THEN NearestSummary(Filtered(summary, call.knowledge_ids), call.query, call.top_k * 3)
    ELSE <<>>

\* the positions in Found of the hits of document k
HitsOf(k) == {i \in 1..Len(Found) : Found[i].doc.knowledge_id = k}

\* C23: in the GLOBAL path the passage of a returned document is made of
\* the original chunks of its retrieved summary chunks in strictly
\* ascending chunk_index order, whatever order the search returned them
\* in, and holds each retrieved chunk_index exactly once.
C23_PassageInAscendingChunkOrder ==
    SummaryCalled =>
        \A r \in 1..Len(result) :
            LET indices == result[r].doc.chunk_indices IN
            /\ \A i, j \in 1..Len(indices) : i < j => indices[i] < indices[j]
            /\ {indices[i] : i \in 1..Len(indices)}
                  = {Found[h].doc.chunk_index : h \in HitsOf(result[r].doc.knowledge_id)}

\* a returned document of which the search found a later chunk before an
\* earlier one
C23_Witness ==
    /\ SummaryCalled
    /\ \E r \in 1..Len(result) :
          \E h, g \in HitsOf(result[r].doc.knowledge_id) :
              h < g /\ Found[h].doc.chunk_index > Found[g].doc.chunk_index

\* the largest weighted similarity among the hits of document k
MaxScoreOf(k) ==
    Max({Weighted(Sim(Found[h].distance), RetrievalParams(SUMMARY).vector_weight) :
            h \in HitsOf(k)})

\* the documents with a hit
FoundKids == {Found[h].doc.knowledge_id : h \in 1..Len(Found)}

\* C24: in the GLOBAL path no two returned candidates have the same
\* knowledge_id; the score of a candidate is the largest normalized score
\* among the retrieved summary chunks of its document; the candidates are
\* the top_k documents by that score, in non-increasing order of it.
C24_OneCandidatePerDocumentWithItsMaxScore ==
    SummaryCalled =>
        /\ \A i, j \in 1..Len(result) :
              i < j => /\ result[i].doc.knowledge_id # result[j].doc.knowledge_id
                       /\ result[i].score >= result[j].score
        /\ \A i \in 1..Len(result) :
              /\ result[i].doc.knowledge_id \in FoundKids
              /\ result[i].score = MaxScoreOf(result[i].doc.knowledge_id)
        /\ Len(result) = IF Cardinality(FoundKids) < call.top_k
                         THEN Cardinality(FoundKids) ELSE call.top_k
        /\ \A k \in FoundKids :
              (\A i \in 1..Len(result) : result[i].doc.knowledge_id # k)
                  => \A i \in 1..Len(result) : MaxScoreOf(k) <= result[i].score

\* a call that found two documents and returned the better one alone,
\* of which it found two chunks at different distances
C24_Witness ==
    /\ SummaryCalled
    /\ Len(result) = 1
    /\ \E k \in FoundKids :
          /\ k # result[1].doc.knowledge_id
          /\ MaxScoreOf(k) < result[1].score
    /\ \E h, g \in HitsOf(result[1].doc.knowledge_id) :
          h < g /\ Found[h].distance < Found[g].distance

\* C25: whatever the order of the candidates handed to rerank, the list it
\* returns is in non-increasing order of rerank_score, when the relevance
\* capability answered, when it failed and when no API key is set.
C25_OutputInNonIncreasingOrder ==
    rerank_in # NoCall =>
        \A i, j \in 1..Len(rerank_out) :
            i < j => rerank_out[i].rerank_score >= rerank_out[j].rerank_score

-----------------------------------------------------------------------------
(* HierarchicalChunker.create_hierarchical_chunks *)
\* A document is a sequence of lines.  A line is known by what the unit
\* parser and the sentence splitter read of it: its kind, its length, and
\* whether it ends with a sentence terminator (stop); id is its position in
\* the document.  A terminator, where a line has one, is its last
\* character.

\* the largest number of lines of a document
MaxLines == 4

small_chunk_size == 256

LineKinds ==
    { [kind |-> "blank", level |-> 99, len |-> 0, stop |-> FALSE],
      [kind |-> "heading", level |-> 2, len |-> 20, stop |-> FALSE],
      [kind |-> "fence", level |-> 99, len |-> 3, stop |-> FALSE],
      [kind |-> "code", level |-> 99, len |-> 200, stop |-> FALSE],
      [kind |-> "code", level |-> 99, len |-> 600, stop |-> TRUE],
      [kind |-> "row", level |-> 99, len |-> 400, stop |-> FALSE],
      [kind |-> "list", level |-> 99, len |-> 100, stop |-> TRUE],
      [kind |-> "text", level |-> 99, len |-> 300, stop |-> TRUE] }

LineTexts == UNION { [1..n -> LineKinds] : n \in 0..MaxLines }

\* content.split('\n'), each line with its position
Numbered(text) ==
    [i \in 1..Len(text) |->
        [kind |-> text[i].kind, level |-> text[i].level, len |-> text[i].len,
         stop |-> text[i].stop, id |-> i]]

\* the line an empty line of a chunk is read as
BlankLine == [kind |-> "blank", level |-> 99, len |-> 0, stop |-> FALSE, id |-> 0]

\* current_unit = {"type": "paragraph", "text": ""}
EmptyUnit == [type |-> "paragraph", level |-> 99, lines |-> <<>>]

\* the loop of _parse_semantic_units from line i on.  A line is a heading
\* or a list item when the pattern of one matches it; a fence line, a line
\* of code and a table row match neither and are read as plain text, like
\* any other line.
RECURSIVE ParseLoop(_, _, _, _, _)
ParseLoop(lines, i, units, current_unit, in_list) ==
    LET flushed == IF current_unit.lines # <<>> THEN Append(units, current_unit)
                   ELSE units
    IN  IF i > Len(lines) THEN flushed
        ELSE LET line == lines[i] IN
             IF line.kind = "blank"
             THEN ParseLoop(lines, i + 1, flushed, EmptyUnit, FALSE)
             ELSE IF line.kind = "heading"
             THEN ParseLoop(lines, i + 1,
                            Append(flushed, [type |-> "heading", level |-> line.level,
                                             lines |-> <<line>>]),
                            EmptyUnit, FALSE)
             ELSE IF line.kind = "list"
             THEN IF ~in_list
                  THEN ParseLoop(lines, i + 1, flushed,
                                 [type |-> "list", level |-> 99, lines |-> <<line>>], TRUE)
                  ELSE ParseLoop(lines, i + 1, units,
                                 [current_unit EXCEPT !.lines = Append(@, line)], TRUE)
             ELSE IF in_list
             THEN ParseLoop(lines, i + 1, flushed,
                            [type |-> "paragraph", level |-> 99, lines |-> <<line>>], FALSE)
             ELSE ParseLoop(lines, i + 1, units,
                            [current_unit EXCEPT !.lines = Append(@, line)], FALSE)

\* re.split(r'([...])', unit_text) with each terminator put back: the lines
\* of a unit grouped into its sentences, a sentence ending with the line
\* that ends with a terminator
RECURSIVE SentenceGroups(_, _, _, _)
SentenceGroups(lines, i, open, groups) ==
    IF i > Len(lines) THEN IF open # <<>> THEN Append(groups, open) ELSE groups
    ELSE IF lines[i].stop
    THEN SentenceGroups(lines, i + 1, <<>>, Append(groups, Append(open, lines[i])))
    ELSE SentenceGroups(lines, i + 1, Append(open, lines[i]), groups)

RECURSIVE LensOf(_)
LensOf(lines) == IF lines = <<>> THEN 0 ELSE Head(lines).len + LensOf(Tail(lines))

\* _parse_semantic_units: the units of a text, each with its sentences (the
\* lines of each, and the length of each: its lines and the line breaks
\* before them, the first line of a unit having none)
parse_semantic_units(lines) ==
    LET units == ParseLoop(lines, 1, <<>>, EmptyUnit, FALSE)
    IN  [u \in 1..Len(units) |->
            LET groups == SentenceGroups(units[u].lines, 1, <<>>, <<>>)
            IN  [type |-> units[u].type,
                 level |-> units[u].level,
                 lines |-> groups,
                 sentences |-> [s \in 1..Len(groups) |->
                                   LensOf(groups[s]) + Len(groups[s])
                                       - (IF s = 1 THEN 1 ELSE 0)]]]

\* the lines of a chunk, as splitting it at line breaks gives them: the
\* lines of its sentences, with an empty line between two units
RECURSIVE ChunkLines(_, _, _)
ChunkLines(chunk, units, p) ==
    IF p > Len(chunk) THEN <<>>
    ELSE (IF p > 1 /\ chunk[p][1] # chunk[p - 1][1] THEN <<BlankLine>> ELSE <<>>)
             \o units[chunk[p][1]].lines[chunk[p][2]]
             \o ChunkLines(chunk, units, p + 1)

\* the positions in the document of the lines of a chunk
LineIds(chunk, units) ==
    {l.id : l \in {ChunkLines(chunk, units, 1)[i] :
                      i \in 1..Len(ChunkLines(chunk, units, 1))}} \ {0}

\* create_hierarchical_chunks: the large chunks of a text and the small
\* chunks of each, every chunk given as the positions of its lines
create_hierarchical_chunks(text) ==
    LET units == parse_semantic_units(Numbered(text))
        large_chunks == split_into_chunks(units, large_chunk_size)
    IN  [large_idx \in 1..Len(large_chunks) |->
            LET large_chunk == ChunkLines(large_chunks[large_idx], units, 1)
                small_units == parse_semantic_units(large_chunk)
                small_chunks == split_into_chunks(small_units, small_chunk_size)
            IN  [large_chunk |-> LineIds(large_chunks[large_idx], units),
                 small_chunks |-> [small_idx \in 1..Len(small_chunks) |->
                                      LineIds(small_chunks[small_idx], small_units)]]]

\* A call of create_hierarchical_chunks: the model follows one call.
ChunkCall ==
    /\ invoked = NoCall
    /\ \E text \in LineTexts :
        /\ invoked' = [op |-> "chunk", text |-> text]
        /\ returned' = [op |-> "chunk", chunks |-> create_hierarchical_chunks(text)]
        /\ UNCHANGED <<indexVars, resp, retrVars, rerankVars, citeVars, chat, inflight>>

NextChunker == ChunkCall

SpecChunker == Init /\ [][NextChunker]_vars

\* the fenced code blocks of a text: the lines from an opening fence to
\* the fence that closes it
Fences(text) == {i \in 1..Len(text) : text[i].kind = "fence"}

CodeBlocks(text) ==
    {i..j : i, j \in Fences(text)} \ {{}}

FencedBlocks(text) ==
    {b \in CodeBlocks(text) :
        LET i == CHOOSE x \in b : \A y \in b : x <= y
            j == CHOOSE x \in b : \A y \in b : y <= x
        IN  /\ i < j
            /\ Fences(text) \cap b = {i, j}
            /\ Cardinality({f \in Fences(text) : f < i}) % 2 = 0}

\* the tables of a text: the longest runs of two or more rows
Tables(text) ==
    {b \in {i..j : i, j \in 1..Len(text)} :
        /\ Cardinality(b) >= 2
        /\ \A l \in b : text[l].kind = "row"
        /\ \A l \in 1..Len(text) :
              (l + 1 \in b \/ l - 1 \in b) /\ l \notin b => text[l].kind # "row"}

\* the lines of a block that are not empty
Written(text, b) == {l \in b : text[l].kind # "blank"}

\* C26: every fenced code block and every table of a document lies whole
\* in one large chunk and whole in one small chunk: it is split neither at
\* an empty line inside it nor at a sentence terminator, even when it is
\* longer than the target size.
C26_CodeBlocksAndTablesStayWhole ==
    invoked.op = "chunk" =>
        \A b \in FencedBlocks(invoked.text) \cup Tables(invoked.text) :
            \E c \in 1..Len(returned.chunks) :
                /\ Written(invoked.text, b) \subseteq returned.chunks[c].large_chunk
                /\ \E s \in 1..Len(returned.chunks[c].small_chunks) :
                      Written(invoked.text, b) \subseteq returned.chunks[c].small_chunks[s]

-----------------------------------------------------------------------------
(* Two retrievals of one scope, before and after a document outside it is
   deleted *)

\* what the indexes hold of the documents of a scope: their Detail rows,
\* and their entries of the KeywordIndex in corpus order
InScope(knowledge_ids) ==
    [detail |-> Filtered(detail, knowledge_ids),
     metadata |-> SelectSeq(bm25_metadata, LAMBDA m : m.knowledge_id \in knowledge_ids),
     index |-> SelectSeq(bm25_index, LAMBDA c : c[1] \in knowledge_ids)]

\* A DETAIL retrieval with a non-empty scope.
ScopedRetrieve ==
    /\ call = NoCall
    /\ \E q \in Queries, knowledge_ids \in (SUBSET Kids) \ {{}},
          top_k \in 1..MaxTopK, storeOk \in BOOLEAN :
        LET params == RetrievalParams(DETAIL) IN
        /\ call' = [op |-> "retrieve", query |-> q, knowledge_ids |-> knowledge_ids,
                    index_type |-> DETAIL, top_k |-> top_k, storeOk |-> storeOk,
                    in_scope |-> InScope(knowledge_ids)]
        /\ result' = Retrieve(q, knowledge_ids, DETAIL, top_k,
                              params.vector_weight, params.bm25_weight, storeOk)
        /\ UNCHANGED <<indexVars, resp, rerankVars, citeVars, callVars, chat, inflight>>

\* DELETE /knowledge/{knowledge_id} of a document outside the scope of the
\* retrieval, no store call failing.
DeleteOutOfScope ==
    /\ call # NoCall
    /\ resp.op = "none"
    /\ UNCHANGED <<retrVars, rerankVars, citeVars, callVars, chat, inflight>>
    /\ \E k \in Kids \ call.knowledge_ids, u \in Users :
        delete_knowledge(k, u, "none", "ok")

\* The same retrieval again.
RepeatRetrieve ==
    /\ call # NoCall
    /\ resp.op = "delete"
    /\ invoked = NoCall
    /\ LET params == RetrievalParams(DETAIL) IN
        /\ invoked' = [op |-> "retrieve", in_scope |-> InScope(call.knowledge_ids)]
        /\ returned' = [op |-> "retrieve",
                        result |-> Retrieve(call.query, call.knowledge_ids, DETAIL,
                                            call.top_k, params.vector_weight,
                                            params.bm25_weight, call.storeOk)]
        /\ UNCHANGED <<indexVars, resp, retrVars, rerankVars, citeVars, chat, inflight>>

NextScope == ScopedRetrieve \/ DeleteOutOfScope \/ RepeatRetrieve

SpecScope == InitRetrieve /\ [][NextScope]_vars

\* C27: two DETAIL retrievals with the same query, the same non-empty
\* scope and the same parameters, on two index states that hold the same
\* chunks of the documents in scope, return the same candidates with the
\* same fused scores in the same order, whatever documents outside the
\* scope the two states hold.
C27_ResultDependsOnScopeOnly ==
    (returned.op = "retrieve" /\ invoked.in_scope = call.in_scope)
        => returned.result = result

-----------------------------------------------------------------------------
(* A course file uploaded and deleted in the main application *)
\* invoked is the file's record in the main application; inflight holds
\* the background tasks upload_file and delete_file created, each with how
\* far it has run.

Task(op, state) == Request(IF op = "add" THEN 1 ELSE 2, op, state, {})

TasksIn(op, state) == {t \in inflight : t.op = op /\ t.state = state}

\* upload_file: the file is saved and the task add_to_rag_knowledge created
UploadFile ==
    /\ invoked = NoCall
    /\ \E c \in CourseIds, f \in FileIds :
        invoked' = [op |-> "file", course_id |-> c, file_id |-> f, stored |-> TRUE]
    /\ inflight' = {Task("add", "created")}
    /\ UNCHANGED <<indexVars, resp, retrVars, rerankVars, citeVars, returned, chat>>

\* add_to_rag_knowledge posts the file; POST /knowledge/add-from-course
\* runs up to await parse_file_content
AddToRagPosts ==
    /\ \E t \in TasksIn("add", "created") :
        inflight' = (inflight \ {t}) \cup {Task("add", "parsing")}
    /\ UNCHANGED <<indexVars, resp, retrVars, rerankVars, citeVars, callVars, chat>>

\* the parse of the file ends: add-from-course runs to its return, no
\* store call failing, and the task ends with it
AddToRagResumes ==
    /\ \E t \in TasksIn("add", "parsing"), text \in Texts :
       \E shape \in ShapesOf(text), nsum \in SummariesOf(text) :
        /\ add_course_resource_to_knowledge(invoked.course_id, invoked.file_id, "b.md",
                                            text, shape, nsum, "none", "ok")
        /\ inflight' = (inflight \ {t}) \cup {Task("add", "done")}
    /\ UNCHANGED <<retrVars, rerankVars, citeVars, callVars, chat>>

\* delete_file, after upload_file returned: the file is removed and the
\* task delete_from_rag_knowledge created
DeleteFile ==
    /\ invoked # NoCall
    /\ invoked.stored
    /\ invoked' = [invoked EXCEPT !.stored = FALSE]
    /\ inflight' = inflight \cup {Task("delete", "created")}
    /\ UNCHANGED <<indexVars, resp, retrVars, rerankVars, citeVars, returned, chat>>

\* delete_from_rag_knowledge: DELETE /knowledge/course_<course_id>_<file_id>
\* as "system", from its arrival to its return, no store call failing
DeleteFromRag ==
    /\ \E t \in TasksIn("delete", "created") :
        /\ delete_knowledge(CourseKid(invoked.course_id, invoked.file_id), "system",
                            "none", "ok")
        /\ inflight' = (inflight \ {t}) \cup {Task("delete", "done")}
    /\ UNCHANGED <<retrVars, rerankVars, citeVars, callVars, chat>>

NextCourseFile ==
    UploadFile \/ AddToRagPosts \/ AddToRagResumes \/ DeleteFile \/ DeleteFromRag

\* the indexes hold the personal documents, in any of the states of
\* InitRetrieve, and nothing of the course file
InitCourseFile ==
    /\ InitRetrieve
    /\ \A k \in Kids \ UuidKids :
          /\ GetWhere(detail, k) = {}
          /\ GetWhere(summary, k) = {}
          /\ \A i \in 1..Len(bm25_metadata) : bm25_metadata[i].knowledge_id # k

SpecCourseFile == InitCourseFile /\ [][NextCourseFile]_vars

\* C28: once the add task and the delete task of a course file that was
\* uploaded and then deleted have both ended, no index holds an entry of
\* the file's knowledge_id, however the two tasks and the parse inside the
\* add were interleaved.
C28_DeletedFileLeavesNoEntry ==
    (invoked # NoCall /\ inflight = {Task("add", "done"), Task("delete", "done")})
        => LET k == CourseKid(invoked.course_id, invoked.file_id) IN
           /\ GetWhere(detail, k) = {}
           /\ GetWhere(summary, k) = {}
           /\ \A i \in 1..Len(bm25_metadata) : bm25_metadata[i].knowledge_id # k

-----------------------------------------------------------------------------
(* Who may delete a document *)
\* invoked is the last request: for a delete, its caller, the rows of the
\* document the Detail Index held when it arrived, and the indexes then.

Callers == {"u1", "u2", "system"}

\* source_type of AddKnowledgeRequest is any string: the two the service
\* names, and one it does not
SourceTypes == {PERSONAL, COURSE, "shared"}

\* POST /knowledge/add by any caller with any source_type, no store call
\* failing
AddAs ==
    /\ \E u \in Callers, source_type \in SourceTypes, shape \in FlatShapes,
          nsum \in 1..MaxSummaries :
        /\ add_knowledge(u, "a.md", source_type, "doc", shape, nsum, "none", "ok")
        /\ invoked' = [op |-> "add", x_user_id |-> u]
    /\ UNCHANGED <<retrVars, rerankVars, citeVars, returned, chat, inflight>>

\* POST /knowledge/add-from-course, no store call failing
AddFromCourseAs ==
    /\ \E u \in Callers, c \in CourseIds, f \in FileIds, shape \in FlatShapes :
        /\ add_course_resource_to_knowledge(c, f, "b.md", "doc", shape, 1, "none", "ok")
        /\ invoked' = [op |-> "add_course", x_user_id |-> u]
    /\ UNCHANGED <<retrVars, rerankVars, citeVars, returned, chat, inflight>>

\* DELETE /knowledge/{knowledge_id} by any caller, no store call failing
DeleteAs ==
    /\ \E k \in Kids, u \in Callers :
        /\ delete_knowledge(k, u, "none", "ok")
        /\ invoked' = [op |-> "delete", x_user_id |-> u, knowledge_id |-> k,
                       existing |-> GetWhere(detail, k),
                       before |-> <<detail, summary, bm25_docs, bm25_metadata, bm25_index>>]
    /\ UNCHANGED <<retrVars, rerankVars, citeVars, returned, chat, inflight>>

NextOwnership == AddAs \/ AddFromCourseAs \/ DeleteAs

SpecOwnership == Init /\ [][NextOwnership]_vars

\* C29: a delete of a stored document by a caller who is neither its
\* owner_id nor "system" returns success false and leaves the Detail
\* Index, the Summary Index and the KeywordIndex as they were, whatever
\* source_type the document was ingested with.
C29_OnlyOwnerOrSystemDeletes ==
    (/\ invoked.op = "delete"
     /\ invoked.existing # {}
     /\ invoked.x_user_id # "system"
     /\ \A r \in invoked.existing : r.owner_id # invoked.x_user_id)
        => /\ ~resp.success
           /\ invoked.before = <<detail, summary, bm25_docs, bm25_metadata, bm25_index>>

-----------------------------------------------------------------------------
(* The chat pipeline from retrieval to the sources of the prompt *)

\* chat.py: RELEVANCE_THRESHOLD
RELEVANCE_THRESHOLD == 350

\* content_key of _retrieve_sources: (name, content[:100]), the content
\* being the passage in the GLOBAL path and the large chunk otherwise
ContentKey(doc, index_type) ==
    IF index_type = SUMMARY THEN <<doc.name, doc.knowledge_id, doc.chunk_indices>>
    ELSE <<doc.name, doc.large_chunk>>

\* the loop of _retrieve_sources: one source per content_key, the first
RECURSIVE SourceLoop(_, _, _, _)
SourceLoop(results, index_type, seen_contents, sources) ==
    IF results = <<>> THEN sources
    ELSE LET key == ContentKey(Head(results).doc, index_type) IN
         IF key \in seen_contents
         THEN SourceLoop(Tail(results), index_type, seen_contents, sources)
         ELSE SourceLoop(Tail(results), index_type, seen_contents \cup {key},
                         Append(sources, [document |-> Head(results).doc,
                                          score |-> Head(results).score]))

\* a first cut that lets every candidate through
WithoutCut(raw_results) == raw_results

\* [(doc, score) for doc, score in raw_results if score >= RELEVANCE_THRESHOLD]
FilteredRaw(raw_results) ==
    SelectSeq(raw_results, LAMBDA r : r.score >= RELEVANCE_THRESHOLD)

\* chat, from the retrieval to the sources handed to _build_prompts: what
\* rerank was called with (NoCall when it was not called), what it
\* returned, and the sources
ChatSources(raw_results, index_type, api_key, api) ==
    LET found == SourceLoop(raw_results, index_type, {}, <<>>)
        sources == SelectSeq(found, LAMBDA s : s.score >= RELEVANCE_THRESHOLD)
        filtered_raw == FilteredRaw(raw_results)
        rerank_results == Rerank(filtered_raw, api_key, RERANK_THRESHOLD, api)
    IN  IF sources # <<>> /\ raw_results # <<>>
        THEN [rerank_in |-> [op |-> "rerank", documents |-> filtered_raw,
                             api_key |-> api_key, threshold |-> RERANK_THRESHOLD,
                             api |-> api.kind],
              rerank_out |-> rerank_results,
              sources |-> [i \in 1..Len(rerank_results) |->
                              [document |-> rerank_results[i].document,
                               score |-> rerank_results[i].rerank_score]]]
        ELSE [rerank_in |-> NoCall, rerank_out |-> <<>>, sources |-> sources]

\* the answers of the relevance capability for n documents: it raises, or
\* it gives every document one of two scores
PipelineAnswers(n) ==
    {[kind |-> "raise", items |-> <<>>]}
    \cup {[kind |-> "ok",
           items |-> [i \in 1..n |-> [index |-> i - 1, relevance_score |-> f[i]]]] :
             f \in [1..n -> {RERANK_THRESHOLD - 100, RERANK_THRESHOLD + 100}]}

\* POST /chat with a non-empty knowledge_ids, up to the call of the
\* language model: the model follows one request on each populated store.
ChatRetrieves ==
    /\ call = NoCall
    /\ \E q \in Queries, knowledge_ids \in (SUBSET Kids) \ {{}},
          index_type \in {DETAIL, SUMMARY}, storeOk \in BOOLEAN, api_key \in BOOLEAN :
        LET params == RetrievalParams(index_type)
            raw_results == Retrieve(q, knowledge_ids, index_type, params.top_k,
                                    params.vector_weight, params.bm25_weight, storeOk)
        IN  \E api \in PipelineAnswers(Len(FilteredRaw(raw_results))) :
            LET out == ChatSources(raw_results, index_type, api_key, api) IN
            /\ call' = [op |-> "retrieve", query |-> q, knowledge_ids |-> knowledge_ids,
                        index_type |-> index_type, top_k |-> params.top_k,
                        storeOk |-> storeOk]
            /\ result' = raw_results
            /\ rerank_in' = out.rerank_in
            /\ rerank_out' = out.rerank_out
            /\ cite_in' = [op |-> "prompt", sources |-> out.sources]
            /\ UNCHANGED <<indexVars, resp, cite_out, callVars, chat, inflight>>

NextPipeline == ChatRetrieves

SpecPipeline == InitRetrieve /\ [][NextPipeline]_vars

\* the candidates the retriever returned at a fused score of at least
\* RELEVANCE_THRESHOLD
Passing == {result[j].doc : j \in {i \in 1..Len(result) : result[i].score >= RELEVANCE_THRESHOLD}}

\* the candidates of a DETAIL retrieval that the keyword search found and
\* the vector search did not
KeywordOnly ==
    {result[j].doc : j \in {i \in 1..Len(result) :
                               /\ VectorComponent(result[i].doc.chunk_id) = 0
                               /\ KeywordComponent(result[i].doc.chunk_id) > 0}}

\* the documents handed to rerank, and the documents of the prompt
HandedToReranker ==
    IF rerank_in = NoCall THEN {}
    ELSE {rerank_in.documents[i].doc : i \in 1..Len(rerank_in.documents)}

Offered == {cite_in.sources[i].document : i \in 1..Len(cite_in.sources)}

\* C30: every candidate the chat pipeline hands to the reranker and every
\* source it offers to the language model was retrieved at a fused score
\* of at least RELEVANCE_THRESHOLD (0.35); a candidate of the DETAIL path
\* found by the keyword search alone has a fused score of at most 0.3 and
\* is neither handed to the reranker nor offered.
C30_OnlyCandidatesAboveTheCutGoOn ==
    cite_in.op = "prompt" =>
        /\ HandedToReranker \subseteq Passing
        /\ Offered \subseteq Passing
        /\ call.index_type = DETAIL =>
              \A i \in 1..Len(result) :
                  result[i].doc \in KeywordOnly
                      => /\ result[i].score <= RetrievalParams(DETAIL).bm25_weight
                         /\ result[i].doc \notin HandedToReranker \cup Offered

\* a DETAIL request that retrieved a chunk by the keyword search alone
\* and a chunk above the cut, handed the second to the reranker and
\* offered it
C30_Witness ==
    /\ cite_in.op = "prompt"
    /\ call.index_type = DETAIL
    /\ KeywordOnly # {}
    /\ HandedToReranker # {}
    /\ Offered # {}

=============================================================================
